---- MODULE Spec2Model ----
(***************************************************************************)
(* Model of the AI orchestration layer of the task tracker: the task /     *)
(* activity / summary store (tasks/models.py, tasks/services/              *)
(* repositories.py), the incremental summary service (tasks/services/      *)
(* summary/service.py) and the streaming consumers with their progress     *)
(* tracker (tasks/websockets/base.py, tasks/websockets/ai_consumers.py).   *)
(***************************************************************************)
EXTENDS Integers, Sequences, FiniteSets, TLC

(* ------------------------------ bounds -------------------------------- *)
MaxTask == 2
MaxActs == 3
MaxTime == 1
MaxCost == 1
MaxCalls == 3
MaxConcCalls == 3

(* --------------------------- program constants ------------------------ *)
MinParseLen == 5
MaxMsgs == 2

(* ------------------------------ values -------------------------------- *)
None == 0

\* callers of the summary service that interleave at the store
Conns == {"c1", "c2"}

\* connections of the streaming runs: the consumers share nothing but the store
WsConns == {"c1"}

\* texts the provider may return (the hosted model's output is free text)
ProviderTexts == {<< <<"s1">> >>, << <<"s2">> >>}

\* sample task field values: a string is a sequence of characters
GoodTitle == <<"F", "i", "x">>
TaskSamples ==
    { [title |-> GoodTitle, description |-> <<"d", "o">>, status |-> "todo"],
      [title |-> <<" ", " ">>, description |-> <<"d", "o">>, status |-> "done"],
      [title |-> GoodTitle, description |-> <<>>, status |-> "todo"] }

\* the summary service reads title and status only
SummaryTaskSamples == {r \in TaskSamples : r.description # <<>>}

VARIABLES
    tasks,      \* Task table: id -> row, for the ids that exist
    nextTask,   \* next Task primary key
    acts,       \* TaskActivity table: set of rows [id, task, timestamp]
    nextAct,    \* next TaskActivity primary key
    now,        \* the clock behind auto_now_add
    sums,       \* TaskSummary table: set of rows
    nextSum,    \* next TaskSummary primary key
    svc,        \* the last create_or_update_summary / delete_summary call
    call,       \* per caller: the in-flight (interleaved) summary call
    conn,       \* per connection: the consumer object's fields
    out,        \* per connection: events sent for the last inbound message
    last,       \* per connection: how the last inbound message was handled
    est,        \* the last TaskEstimationService / TaskRepository call
    rng,        \* the state of the random module's shared generator
    resp        \* the last call of the parser service, a view or a factory

storeVars == <<tasks, nextTask, acts, nextAct, now, sums, nextSum>>
vars == <<tasks, nextTask, acts, nextAct, now, sums, nextSum, svc,
          call, conn, out, last, est, rng, resp>>

(* ------------------------- models.py: store --------------------------- *)
\* Task.STATUS_CHOICES / get_status_display
get_status_display(status) ==
    CASE status = "todo" -> "To Do"
      [] status = "in_progress" -> "In Progress"
      [] status = "in_review" -> "In Review"
      [] status = "done" -> "Done"
      [] status = "blocked" -> "Blocked"
      [] OTHER -> status

\* str.strip(): drop leading and trailing blanks
RECURSIVE LStrip(_)
LStrip(s) == IF s # <<>> /\ Head(s) = " " THEN LStrip(Tail(s)) ELSE s

RECURSIVE RStrip(_)
RStrip(s) ==
    IF s # <<>> /\ s[Len(s)] = " " THEN RStrip(SubSeq(s, 1, Len(s) - 1)) ELSE s

strip(s) == RStrip(LStrip(s))

ActsOf(A, t) == {a \in A : a.task = t}

ActById(A, id) == CHOOSE a \in A : a.id = id

\* QuerySet.order_by("timestamp"): every order of S that is sorted by
\* timestamp (the order among equal timestamps is the database's choice)
OrderByTimestamp(S) ==
    { q \in [1..Cardinality(S) -> S] :
        /\ \A i, j \in 1..Cardinality(S) : i # j => q[i] # q[j]
        /\ \A i, j \in 1..Cardinality(S) : i < j => q[i].timestamp <= q[j].timestamp }

\* TaskActivity.objects.create(task=...): timestamp is auto_now_add
NewActivity(id, t, clock) == [id |-> id, task |-> t, timestamp |-> clock]

(* --------------------- repositories.py: summaries --------------------- *)
\* TaskSummaryRepository.get_by_task_id: the set holds the summary, or is
\* empty for "None" (no task, or task without ai_summary)
get_by_task_id(T, S, t) ==
    IF t \in DOMAIN T THEN {s \in S : s.task = t} ELSE {}

UniqueTaskUnchecked(S, t) == TRUE

\* the OneToOneField's unique constraint on TaskSummary.task
UniqueTaskOk(S, t) == \A s \in S : s.task # t

\* TaskSummaryRepository.create: the row inserted
RepoCreate(id, t, text, lastAct, tokens) ==
    [id |-> id, task |-> t, summary_text |-> text,
     last_activity_processed |-> lastAct, token_usage |-> tokens]

RepoUpdateReplacesTokens(s, text, lastAct, additional) ==
    [s EXCEPT !.summary_text = text,
              !.last_activity_processed =
                  IF lastAct # None THEN lastAct ELSE s.last_activity_processed,
              !.token_usage = additional]

\* TaskSummaryRepository.update: the in-memory summary after the assignments
RepoUpdate(s, text, lastAct, additional) ==
    [s EXCEPT !.summary_text = text,
              !.last_activity_processed =
                  IF lastAct # None THEN lastAct ELSE s.last_activity_processed,
              !.token_usage = s.token_usage + additional]

\* Model.save() of a row that has a primary key: UPDATE the row with that
\* key, or INSERT it when the row is gone
SaveRow(S, s) == {x \in S : x.id # s.id} \cup {s}

(* ------------------- summary/service.py: the service ------------------ *)
CreateBasicSummaryRawStatus(task) ==
    [text |-> << <<"Task">>, task.title, <<"was created with">>, <<task.status>>,
                 <<"status">>, <<"and priority.">> >>,
     tokens |-> 0]

\* TaskSummaryService._create_basic_summary: the parts of the text (each a
\* string: a literal, the title, the status text) and the cost
CreateBasicSummary(task) ==
    [text |-> << <<"Task">>, task.title, <<"was created with">>,
                 <<get_status_display(task.status)>>, <<"status">>,
                 <<"and priority.">> >>,
     tokens |-> 0]

GetAllActivitiesAnyTask(A, t) == OrderByTimestamp(A)

\* TaskSummaryService._get_all_activities
GetAllActivities(A, t) == OrderByTimestamp(ActsOf(A, t))

GetNewActivitiesGte(A, t, s) ==
    IF s.last_activity_processed # None
    THEN OrderByTimestamp(
            {a \in ActsOf(A, t) :
                a.timestamp >= ActById(A, s.last_activity_processed).timestamp})
    ELSE OrderByTimestamp(ActsOf(A, t))

GetNewActivitiesAll(A, t, s) == OrderByTimestamp(ActsOf(A, t))

\* TaskSummaryService._get_new_activities
GetNewActivities(A, t, s) ==
    IF s.last_activity_processed # None
    THEN OrderByTimestamp(
            {a \in ActsOf(A, t) :
                a.timestamp > ActById(A, s.last_activity_processed).timestamp})
    ELSE GetAllActivities(A, t)

Ids(q) == [i \in DOMAIN q |-> q[i].id]

LastId(q) == q[Len(q)].id

\* outcomes of SummaryProvider.generate_task_summary
ProvOutcomes ==
    [ok : {TRUE}, text : ProviderTexts, cost : 0..MaxCost] \cup
    [ok : {FALSE}, text : {<<>>}, cost : {0}]

\* what one service call did: the summary table afterwards, the summary
\* returned (a set: empty when the call raised), what the provider was given
Outcome(kind, S, nid, ret, called, given, prev, cost) ==
    [kind |-> kind, sums |-> S, nextSum |-> nid, ret |-> ret, called |-> called,
     given |-> given, prev |-> prev, cost |-> cost]

\* TaskSummaryService._create_new_summary, with q the activities read
CreateNewSummary(T, S, nid, t, q, prov) ==
    LET basic == CreateBasicSummary(T[t])
        text == IF q = <<>> THEN basic.text ELSE prov.text
        tokens == IF q = <<>> THEN basic.tokens ELSE prov.cost
        row == RepoCreate(nid, t, text, IF q = <<>> THEN None ELSE LastId(q), tokens)
    IN  IF q # <<>> /\ ~prov.ok
        THEN Outcome("provider_error", S, nid, {}, TRUE, Ids(q), <<>>, 0)
        ELSE IF ~UniqueTaskOk(S, t)
        THEN Outcome("integrity_error", S, nid, {}, q # <<>>, Ids(q), <<>>, 0)
        ELSE Outcome(IF q = <<>> THEN "created_basic" ELSE "created_ai",
                     S \cup {row}, nid + 1, {row}, q # <<>>, Ids(q), <<>>, tokens)

\* TaskSummaryService._update_existing_summary, with s the summary object
\* read and q the new activities read
UpdateExistingSummary(S, nid, s, q, prov) ==
    LET s2 == RepoUpdate(s, prov.text, LastId(q), prov.cost)
    IN  IF q = <<>>
        THEN Outcome("noop", S, nid, {s}, FALSE, <<>>, <<>>, 0)
        ELSE IF ~prov.ok
        THEN Outcome("provider_error", S, nid, {}, TRUE, Ids(q), s.summary_text, 0)
        ELSE IF \E x \in S : x.id # s2.id /\ x.task = s2.task
        THEN Outcome("integrity_error", S, nid, {}, TRUE, Ids(q), s.summary_text, 0)
        ELSE Outcome("updated", SaveRow(S, s2), nid, {s2}, TRUE, Ids(q),
                     s.summary_text, prov.cost)

\* the activities create_or_update_summary reads for task t
ActivitiesRead(T, A, S, t) ==
    LET existing == get_by_task_id(T, S, t)
    IN  IF t \notin DOMAIN T THEN {<<>>}
        ELSE IF existing # {}
        THEN GetNewActivities(A, t, CHOOSE s \in existing : TRUE)
        ELSE GetAllActivities(A, t)

\* TaskSummaryService.create_or_update_summary run to completion
CreateOrUpdate(T, A, S, nid, t, q, prov) ==
    LET existing == get_by_task_id(T, S, t)
    IN  IF t \notin DOMAIN T
        THEN Outcome("not_found", S, nid, {}, FALSE, <<>>, <<>>, 0)
        ELSE IF existing # {}
        THEN UpdateExistingSummary(S, nid, CHOOSE s \in existing : TRUE, q, prov)
        ELSE CreateNewSummary(T, S, nid, t, q, prov)

\* a delete that empties the table
DeleteEverySummary(T, S, t) == IF t \in DOMAIN T THEN {} ELSE S

\* TaskSummaryRepository.delete_by_task_id: the table afterwards
DeleteByTaskId(T, S, t) ==
    IF t \in DOMAIN T THEN {s \in S : s.task # t} ELSE S

Raised(kind) == kind \in {"not_found", "provider_error", "integrity_error"}

\* per task, the activities given to the provider by the calls made for the
\* task's present summary: by all of them (passed) and by those that stored
\* their result (stored)
NoHistory == [t \in 1..MaxTask |-> {}]

IdleSvc == [n |-> 0, op |-> "none", task |-> None, kind |-> "none",
            before |-> {}, found |-> {}, after |-> {}, seen |-> {}, called |-> FALSE,
            given |-> <<>>, prev |-> <<>>, cost |-> 0,
            passed |-> NoHistory, stored |-> NoHistory, again |-> {}, restored |-> {}]

\* the record of a completed call: before is the summary the call read,
\* found the summary in the store when the call ended its work (the same
\* one unless another caller wrote in between)
SvcRecord(n, op, t, o, before, seen) ==
    [n |-> n, op |-> op, task |-> t, kind |-> o.kind, before |-> before,
     found |-> before,
     after |-> o.ret, seen |-> seen, called |-> o.called, given |-> o.given,
     prev |-> o.prev, cost |-> o.cost,
     passed |-> NoHistory, stored |-> NoHistory, again |-> {}, restored |-> {}]

\* the history h with the entry of task t replaced
SetHistory(h, t, ids) == [x \in DOMAIN h |-> IF x = t THEN ids ELSE h[x]]

GivenIds(o) == {o.given[i] : i \in DOMAIN o.given}

\* the record of a call of one caller at a time: the history is carried on;
\* again and restored hold the activities this call gave to the provider
\* that an earlier call for the same summary had given (had given and
\* stored)
WithHistory(r, o, t, before) ==
    LET old == IF t \in DOMAIN svc.passed THEN svc.passed[t] ELSE {}
        oldStored == IF t \in DOMAIN svc.stored THEN svc.stored[t] ELSE {}
    IN  [r EXCEPT
           !.passed =
              CASE o.kind = "created_ai" -> SetHistory(svc.passed, t, GivenIds(o))
                [] o.kind = "created_basic" -> SetHistory(svc.passed, t, {})
                [] o.kind = "updated" -> SetHistory(svc.passed, t, old \cup GivenIds(o))
                [] o.kind = "provider_error" /\ before # {} ->
                     SetHistory(svc.passed, t, old \cup GivenIds(o))
                [] OTHER -> svc.passed,
           !.stored =
              CASE o.kind = "created_ai" -> SetHistory(svc.stored, t, GivenIds(o))
                [] o.kind = "created_basic" -> SetHistory(svc.stored, t, {})
                [] o.kind = "updated" ->
                     SetHistory(svc.stored, t, oldStored \cup GivenIds(o))
                [] OTHER -> svc.stored,
           !.again = IF before # {} /\ o.called THEN GivenIds(o) \cap old ELSE {},
           !.restored = IF before # {} /\ o.called THEN GivenIds(o) \cap oldStored
                        ELSE {}]

IdleCall == [pc |-> "idle", task |-> None, existing |-> {}, seen |-> {},
             q |-> <<>>, prov |-> [ok |-> FALSE, text |-> <<>>, cost |-> 0]]

\* the last call of the estimation service or of get_similar_tasks: its
\* arguments and what came back (n counts the calls)
EstRecord(n, op, task, estimator, answer, kind, invoked, result, error) ==
    [n |-> n, op |-> op, task |-> task, estimator |-> estimator,
     answer |-> answer, kind |-> kind, invoked |-> invoked, result |-> result,
     error |-> error]

\* the last call of the parser service, of a view or of a factory: its
\* arguments and what came back (n counts the calls)
RespRecord(n, op, arg, kind, result) ==
    [n |-> n, op |-> op, arg |-> arg, kind |-> kind, result |-> result]

IdleResp == RespRecord(0, "none", <<>>, "none", <<>>)

\* no call yet
IdleEst == EstRecord(0, "none", None, "none", <<>>, "none", FALSE, <<>>, <<>>)

(* -------------- repositories.py / models.py: tasks with estimates ------ *)
\* Task.estimate is a nullable PositiveIntegerField: NullEstimate is NULL
NullEstimate == -1

\* task rows of the estimation runs: the fields the estimation service, the
\* estimators and get_similar_tasks read (updated_at is set when stored)
Words == <<"a", " ", "b", " ", "c">>

EstRow(title, description, status, priority, estimate) ==
    [title |-> title, description |-> description, status |-> status,
     priority |-> priority, estimate |-> estimate, updated_at |-> 0]

EstTaskSamples ==
    { EstRow(Words, <<"d", "o">>, "todo", "high", NullEstimate),
      EstRow(<<" ", " ">>, <<"d", "o">>, "done", "medium", 2),
      EstRow(GoodTitle, <<>>, "closed", "medium", 3),
      EstRow(GoodTitle, <<" ">>, "done", "low", 0),
      EstRow(GoodTitle, <<"d", "o">>, "in_progress", "critical", 5) }

\* Task.objects.bulk_create([...]) / loaddata: the row is stored with
\* updated_at = now (auto_now) and Task.save is not run, so no activity is
\* logged; max bounds the table of the run
BulkCreateTask(row, max) ==
    /\ nextTask <= max
    /\ tasks' = tasks @@ (nextTask :> [row EXCEPT !.updated_at = now])
    /\ nextTask' = nextTask + 1
    /\ UNCHANGED <<acts, nextAct, now, sums, nextSum, svc, call, conn,
                   out, last, est, rng, resp>>

\* task.save() of a stored task with no tracked field changed: auto_now
\* sets updated_at and no activity is logged
TouchTask(t) ==
    /\ t \in DOMAIN tasks
    /\ tasks[t].updated_at # now
    /\ tasks' = [tasks EXCEPT ![t].updated_at = now]
    /\ UNCHANGED <<nextTask, acts, nextAct, now, sums, nextSum, svc, call, conn,
                   out, last, est, rng, resp>>

SimilarCandidatesWithSelf(T, t) ==
    {i \in DOMAIN T :
        /\ T[i].estimate # NullEstimate
        /\ T[i].estimate > 0
        /\ T[i].status \in {"done", "closed"}}

\* the rows get_similar_tasks filters for: estimate__isnull=False,
\* estimate__gt=0, status__in=["done", "closed"], exclude(id=task.id)
SimilarCandidates(T, t) ==
    {i \in DOMAIN T \ {t} :
        /\ T[i].estimate # NullEstimate
        /\ T[i].estimate > 0
        /\ T[i].status \in {"done", "closed"}}

\* order_by("-updated_at"): every order of the ids S that is sorted by
\* updated_at, latest first (the order among equal values is the database's)
RECURSIVE OrderByUpdatedDesc(_, _)
OrderByUpdatedDesc(T, S) ==
    IF S = {} THEN {<<>>}
    ELSE LET latest == {i \in S : \A j \in S : T[i].updated_at >= T[j].updated_at}
         IN  UNION { { <<i>> \o q : q \in OrderByUpdatedDesc(T, S \ {i}) } :
                     i \in latest }

Min(a, b) == IF a <= b THEN a ELSE b

Max(a, b) == IF a >= b THEN a ELSE b

\* the dict get_similar_tasks builds for a row
SimilarEntry(T, i) ==
    [id |-> i, title |-> T[i].title, description |-> T[i].description,
     priority |-> T[i].priority, estimate |-> T[i].estimate,
     status |-> T[i].status]

\* TaskRepository.get_similar_tasks(task, limit): the lists it can return
get_similar_tasks(T, t, limit) ==
    { [k \in 1..Min(limit, Len(q)) |-> SimilarEntry(T, q[k])] :
        q \in OrderByUpdatedDesc(T, SimilarCandidates(T, t)) }

(* ------------------- builders.py: EstimationResultBuilder -------------- *)
\* hours are counted in hundredths of an hour, scores in hundredths; a text
\* is a sequence of pieces (strings), a line a text without "\n"
MinHours == 10

MaxHours == 50000

MaxConfidence == 100

MaxSimilar == 5

MinReasoningLen == 10

RECURSIVE TextLen(_)
TextLen(text) == IF text = <<>> THEN 0 ELSE Len(Head(text)) + TextLen(Tail(text))

Blank(piece) == piece \in {"", " ", "\n"}

\* str.strip() on a text
RECURSIVE StripText(_)
StripText(text) ==
    IF text # <<>> /\ Blank(Head(text)) THEN StripText(Tail(text))
    ELSE IF text # <<>> /\ Blank(text[Len(text)])
    THEN StripText(SubSeq(text, 1, Len(text) - 1))
    ELSE text

\* "\n".join(lines)
RECURSIVE JoinLines(_)
JoinLines(lines) ==
    IF lines = <<>> THEN <<>>
    ELSE IF Len(lines) = 1 THEN Head(lines)
    ELSE Head(lines) \o <<"\n">> \o JoinLines(Tail(lines))

\* round(x, 1) of a value in hundredths: the nearest tenth (a tie goes to
\* the even tenth)
Round1(h) ==
    LET lo == (h \div 10) * 10
        r == h % 10
    IN  IF r < 5 THEN lo
        ELSE IF r > 5 THEN lo + 10
        ELSE IF (lo \div 10) % 2 = 0 THEN lo ELSE lo + 10

set_hours_unclamped(hours) == hours

\* EstimationResultBuilder.set_hours
set_hours(hours) == Max(MinHours, Min(hours, MaxHours))

\* EstimationResultBuilder.set_confidence
set_confidence(confidence) == Max(0, Min(confidence, MaxConfidence))

\* the section titles the estimators pass; the ones with "=" or "-" in them
\* get no underline
Underline(title) ==
    CASE title = "Similar Task Analysis" -> <<"=====================">>
      [] title = "Task Analysis" -> <<"=============">>
      [] title = "Complexity Factors" -> <<"==================">>
      [] title = "Similar Tasks Analysis" -> <<"======================">>
      [] title = "Estimation Calculation" -> <<"======================">>
      [] OTHER -> <<>>

\* EstimationResultBuilder.add_reasoning_section: the lines afterwards
add_reasoning_section(parts, title, content) ==
    (IF title # ""
     THEN parts \o <<<<title>>>> \o [i \in DOMAIN Underline(title) |-> <<Underline(title)[i]>>]
     ELSE parts)
    \o (IF content # <<>> THEN << <<>>, content >> ELSE <<>>)

\* EstimationResultBuilder.add_reasoning_list
add_reasoning_list(parts, items) ==
    parts \o [i \in DOMAIN items |-> <<"* ">> \o items[i]]

\* EstimationResultBuilder.add_reasoning_text
add_reasoning_text(parts, text) ==
    IF text # <<>> THEN parts \o << <<>>, text >> ELSE parts

\* EstimationResultBuilder.set_similar_tasks
set_similar_tasks(similar_tasks) ==
    SubSeq(similar_tasks, 1, Min(MaxSimilar, Len(similar_tasks)))

\* EstimationResultBuilder.build
build(hours, confidence, parts, similar_tasks, metadata) ==
    [estimated_hours |-> Round1(hours), confidence_score |-> confidence,
     reasoning |-> IF parts # <<>> THEN JoinLines(parts)
                   ELSE <<"No reasoning provided">>,
     similar_tasks |-> similar_tasks, metadata |-> metadata]

(* ------------- builders.py: MockEstimationBuilder, random -------------- *)
\* the module random: its state is the last seed and the number of draws
\* since; RngOut is the draw of a state, one of RngSteps + 1 equal steps of
\* the interval asked for
RngSteps == 10

seed(a) == [seed |-> a, drawn |-> 0]

RngOut(state) == (state.seed * 7 + state.drawn * 3) % (RngSteps + 1)

\* random.uniform(lo, hi) in the state given, and the state afterwards
uniform(state, lo, hi) == lo + ((hi - lo) * RngOut(state)) \div RngSteps

\* len(text.split())
RECURSIVE WordCount(_, _)
WordCount(text, inWord) ==
    IF text = <<>> THEN 0
    ELSE IF Blank(Head(text)) THEN WordCount(Tail(text), FALSE)
    ELSE (IF inWord THEN 0 ELSE 1) + WordCount(Tail(text), TRUE)

RECURSIVE SumEstimates(_)
SumEstimates(similar_tasks) ==
    IF similar_tasks = <<>> THEN 0
    ELSE Head(similar_tasks).estimate + SumEstimates(Tail(similar_tasks))

\* MockEstimationBuilder.analyze_title_complexity (hours in hundredths,
\* products cut to hundredths)
analyze_title_complexity(b, task) ==
    LET title_words == WordCount(task.title, FALSE)
    IN  IF title_words > 8
        THEN [b EXCEPT !.base_hours = (@ * 13) \div 10,
                       !.complexity_factors = Append(@, "Complex title")]
        ELSE IF title_words < 3
        THEN [b EXCEPT !.base_hours = (@ * 8) \div 10,
                       !.complexity_factors = Append(@, "Simple title")]
        ELSE b

\* MockEstimationBuilder.analyze_description_complexity
analyze_description_complexity(b, task) ==
    LET desc_words == WordCount(task.description, FALSE)
    IN  IF task.description = <<>> THEN b
        ELSE IF desc_words > 100
        THEN [b EXCEPT !.base_hours = (@ * 15) \div 10,
                       !.complexity_factors = Append(@, "Detailed description")]
        ELSE IF desc_words < 20
        THEN [b EXCEPT !.base_hours = (@ * 9) \div 10,
                       !.complexity_factors = Append(@, "Brief description")]
        ELSE b

\* priority_multipliers.get(priority, 1.0), in tenths
priority_multipliers(priority) ==
    CASE priority = "low" -> 8
      [] priority = "medium" -> 10
      [] priority = "high" -> 12
      [] priority = "urgent" -> 14
      [] OTHER -> 10

\* MockEstimationBuilder.analyze_priority_impact
analyze_priority_impact(b, task) ==
    LET m == priority_multipliers(task.priority)
    IN  [b EXCEPT !.priority_multiplier = m,
                  !.base_hours = (@ * m) \div 10,
                  !.complexity_factors =
                      IF m # 10 THEN Append(@, task.priority \o " priority") ELSE @]

\* MockEstimationBuilder.apply_similar_tasks_influence
apply_similar_tasks_influence(b, similar_tasks) ==
    IF similar_tasks = <<>> THEN b
    ELSE LET avg_similar_estimate ==
                 (SumEstimates(similar_tasks) * 100) \div Len(similar_tasks)
         IN  [b EXCEPT !.base_hours = (avg_similar_estimate * 7) \div 10 + (@ * 3) \div 10,
                       !.complexity_factors = Append(@, "Based on " \o ToString(Len(similar_tasks))
                                                             \o " similar tasks")]

\* MockEstimationBuilder.apply_deterministic_variance: variance_factor in
\* thousandths, drawn right after random.seed(self.task.id)
apply_deterministic_variance(b, task_id) ==
    [b EXCEPT !.variance_factor = uniform(seed(task_id), 850, 1150)]

\* MockEstimationBuilder.get_estimated_hours
get_estimated_hours(b) == (b.base_hours * b.variance_factor) \div 1000

\* MockEstimationBuilder(task) and the chain of calls estimate_task makes
MockEstimationBuilder(task, task_id, similar_tasks) ==
    apply_deterministic_variance(
        apply_similar_tasks_influence(
            analyze_priority_impact(
                analyze_description_complexity(
                    analyze_title_complexity(
                        [base_hours |-> 300, priority_multiplier |-> 10,
                         variance_factor |-> 1000, complexity_factors |-> <<>>],
                        task),
                    task),
                task),
            similar_tasks),
        task_id)

\* MockEstimationBuilder.get_metadata with historical_tasks_count added;
\* round(variance_factor, 2)
MockMetadata(b, similar_tasks) ==
    [model |-> "mock-ai-similarity", tokens_used |-> 0, is_mock |-> TRUE,
     complexity_factors |-> b.complexity_factors,
     priority_multiplier |-> b.priority_multiplier,
     variance_factor |-> Round1(b.variance_factor),
     historical_tasks_count |-> Len(similar_tasks)]

(* --------------- estimation/ai_similarity.py: estimators --------------- *)
\* what an estimator's estimate_task does: it returns a result or raises
Returned(result) == [kind |-> "returned", result |-> result, error |-> <<>>]

Raises(kind, error) == [kind |-> kind, result |-> <<>>, error |-> error]

\* the hosted model's answers: the JSON payload (hours and score in
\* hundredths), or what goes wrong on the way to it
GoodReasoning == <<"Similar to the completed tasks">>

AIPayload(hours, confidence, reasoning) ==
    [fault |-> "none", estimated_hours |-> hours, confidence_score |-> confidence,
     reasoning |-> reasoning]

AIPayloads ==
    { AIPayload(725, 50, GoodReasoning), AIPayload(0, 50, GoodReasoning),
      AIPayload(-100, 50, GoodReasoning), AIPayload(60000, 50, GoodReasoning),
      AIPayload(400, -50, GoodReasoning), AIPayload(400, 150, GoodReasoning),
      AIPayload(400, 50, <<>>), AIPayload(400, 50, <<"ok">>) } \cup
    { [AIPayload(0, 0, <<>>) EXCEPT !.fault = f] :
        f \in {"empty", "invalid_json", "missing_field", "exception"} }

\* SimilarTaskAnalysisBuilder.add_task_analysis for a row the hosted model
\* gave no analysis of, as build_for_result returns it
TaskAnalysis(task_data) ==
    [id |-> task_data.id, title |-> task_data.title,
     estimate |-> task_data.estimate, priority |-> task_data.priority,
     similarity_score |-> 0]

\* SimilarTaskAnalysisBuilder.build_for_reasoning
build_for_reasoning(analyses) ==
    IF analyses = <<>> THEN << <<"* No similar tasks found">> >>
    ELSE [i \in DOMAIN analyses |->
             <<"* Task #", ToString(analyses[i].id), ": ",
               ToString(analyses[i].estimate), "h">>]

\* AISimilarityEstimator._build_estimation_result
build_estimation_result(similar_tasks, ai_result) ==
    LET top == SubSeq(similar_tasks, 1, Min(5, Len(similar_tasks)))
        analyses == [i \in DOMAIN top |-> TaskAnalysis(top[i])]
        p1 == add_reasoning_section(<<>>, "AI Similarity-Based Estimation",
                                    ai_result.reasoning)
        p2 == IF similar_tasks # <<>>
              THEN add_reasoning_list(add_reasoning_section(p1, "Similar Task Analysis", <<>>),
                                      build_for_reasoning(analyses))
              ELSE p1
        p3 == add_reasoning_text(
                  add_reasoning_text(
                      add_reasoning_text(p2, <<"\n", "Model: ", "gpt-3.5-turbo">>),
                      <<"Temperature: ", "0.3">>),
                  <<"Historical tasks analyzed: ", ToString(Len(similar_tasks))>>)
    IN  build(set_hours(ai_result.estimated_hours),
              set_confidence(ai_result.confidence_score),
              p3, set_similar_tasks(analyses),
              [model |-> "gpt-3.5-turbo", tokens_used |-> 0,
               historical_tasks_count |-> Len(similar_tasks)])

\* AISimilarityEstimator.estimate_task after _validate_task, with the rows
\* get_similar_tasks(task, limit=15) gave and the hosted model's answer
AIEstimate(similar_tasks, answer) ==
    CASE answer.fault = "empty" ->
           Raises("EstimationError", <<"AI returned empty response">>)
      [] answer.fault = "invalid_json" ->
           Raises("EstimationError", <<"Invalid JSON response from AI: ", "Expecting value">>)
      [] answer.fault = "missing_field" ->
           Raises("EstimationError", <<"AI response missing required field: ", "reasoning">>)
      [] answer.fault = "exception" ->
           Raises("EstimationError", <<"AI similarity estimation failed: ", "timeout">>)
      [] OTHER -> Returned(build_estimation_result(similar_tasks, answer))

\* MockAISimilarityEstimator._calculate_mock_confidence, in hundredths
calculate_mock_confidence(task, similar_tasks) ==
    Min(75 + (IF similar_tasks # <<>> THEN Min(Len(similar_tasks) * 3, 15) ELSE 0)
           + (IF Len(task.description) > 50 THEN 5 ELSE 0),
        90)

\* MockAISimilarityEstimator._build_mock_similar_tasks: random.seed(seed),
\* then one draw for each of the first three rows; scores in thousandths
build_mock_similar_tasks(similar_tasks, task_id) ==
    [i \in 1..Min(3, Len(similar_tasks)) |->
        [id |-> similar_tasks[i].id, title |-> similar_tasks[i].title,
         estimate |-> similar_tasks[i].estimate,
         priority |-> similar_tasks[i].priority,
         similarity_score |->
             Round1(Max(300, Min(900 - (i - 1) * 100
                                   + uniform([seed |-> task_id, drawn |-> i - 1], -100, 100),
                                 950)))]]

\* the generator's state after MockAISimilarityEstimator.estimate_task
RngAfterMock(similar_tasks, task_id) ==
    [seed |-> task_id, drawn |-> Min(3, Len(similar_tasks))]

\* MockAISimilarityEstimator.estimate_task after _validate_task, with the
\* rows get_similar_tasks(task, limit=5) gave
MockEstimate(task, task_id, similar_tasks) ==
    LET mock_builder == MockEstimationBuilder(task, task_id, similar_tasks)
        estimated_hours == get_estimated_hours(mock_builder)
        confidence == calculate_mock_confidence(task, similar_tasks)
        similar_tasks_result == build_mock_similar_tasks(similar_tasks, task_id)
        factors == IF mock_builder.complexity_factors # <<>>
                   THEN [i \in DOMAIN mock_builder.complexity_factors |->
                            <<mock_builder.complexity_factors[i]>>]
                   ELSE << <<"Standard complexity">> >>
        p1 == add_reasoning_list(
                  add_reasoning_section(
                      add_reasoning_section(<<>>, "Mock AI Similarity-Based Estimation", <<>>),
                      "Task Analysis", <<>>),
                  << <<"Title complexity: ", ToString(WordCount(task.title, FALSE)), " words">>,
                     <<"Description length: ", ToString(WordCount(task.description, FALSE)),
                       " words">>,
                     <<"Priority: ", task.priority>> >>)
        p2 == add_reasoning_list(add_reasoning_section(p1, "Complexity Factors", <<>>),
                                 factors)
        p3 == add_reasoning_list(
                  add_reasoning_section(p2, "Similar Tasks Analysis", <<>>),
                  IF similar_tasks_result = <<>> THEN << <<"No similar tasks found">> >>
                  ELSE [i \in DOMAIN similar_tasks_result |->
                           <<"Task #", ToString(similar_tasks_result[i].id), ": ",
                             ToString(similar_tasks_result[i].estimate), "h">>])
        p4 == add_reasoning_list(
                  add_reasoning_section(p3, "Estimation Calculation", <<>>),
                  << <<"Base estimate: ", ToString(mock_builder.base_hours)>>,
                     <<"Adjusted for complexity: ", ToString(estimated_hours)>>,
                     <<"Confidence: ", ToString(confidence)>> >>)
        p5 == add_reasoning_text(
                  p4, <<"\n", "Note: This is a mock estimation for development purposes.">>)
    IN  Returned(build(set_hours(estimated_hours), set_confidence(confidence), p5,
                       set_similar_tasks(similar_tasks_result),
                       MockMetadata(mock_builder, similar_tasks)))

\* a TaskEstimator passed to TaskEstimationService(estimator=...): the
\* results its estimate_task hands back as they are
CustomResult(hours, confidence, reasoning) ==
    [estimated_hours |-> hours, confidence_score |-> confidence,
     reasoning |-> reasoning, similar_tasks |-> <<>>, metadata |-> <<>>]

CustomResults ==
    { CustomResult(250, 50, GoodReasoning), CustomResult(0, 50, GoodReasoning),
      CustomResult(-100, 50, GoodReasoning), CustomResult(250, -50, GoodReasoning),
      CustomResult(250, 150, GoodReasoning), CustomResult(250, 50, <<>>),
      CustomResult(250, 50, <<" ", "too short", " ">>),
      CustomResult(120000, 100, GoodReasoning) }

(* ------------------------------ Init ---------------------------------- *)
Init ==
    /\ tasks = <<>>
    /\ nextTask = 1
    /\ acts = {}
    /\ nextAct = 1
    /\ now = 0
    /\ sums = {}
    /\ nextSum = 1
    /\ svc = IdleSvc
    /\ call = [c \in Conns |-> IdleCall]
    /\ conn = [c \in Conns |-> [kind |-> "closed"]]
    /\ out = [c \in Conns |-> <<>>]
    /\ last = [c \in Conns |-> [n |-> 0, path |-> "none", unit |-> "none",
                             unexpected |-> FALSE, action |-> "",
                             frame |-> <<>>,
                             existed |-> FALSE, cached |-> FALSE]]
    /\ est = IdleEst
    /\ rng = seed(0)
    /\ resp = IdleResp

(* --------------------------- store actions ---------------------------- *)
\* Task.objects.create(...): Task.save inserts the row and logs a "created"
\* activity
CreateTask(row) ==
    /\ nextTask <= MaxTask
    /\ nextAct <= MaxActs
    /\ tasks' = tasks @@ (nextTask :> row)
    /\ nextTask' = nextTask + 1
    /\ acts' = acts \cup {NewActivity(nextAct, nextTask, now)}
    /\ nextAct' = nextAct + 1
    /\ UNCHANGED <<now, sums, nextSum, svc, call, conn, out, last, est, rng, resp>>

\* a Task row inserted without Task.save (fixture, bulk insert, a row older
\* than the activity log): no activity is written
InsertTaskRow(row) ==
    /\ nextTask <= MaxTask
    /\ tasks' = tasks @@ (nextTask :> row)
    /\ nextTask' = nextTask + 1
    /\ UNCHANGED <<acts, nextAct, now, sums, nextSum, svc, call, conn,
                   out, last, est, rng, resp>>

\* TaskActivity.objects.create(task=t, ...)
AddActivity(t) ==
    /\ t \in DOMAIN tasks
    /\ nextAct <= MaxActs
    /\ acts' = acts \cup {NewActivity(nextAct, t, now)}
    /\ nextAct' = nextAct + 1
    /\ UNCHANGED <<tasks, nextTask, now, sums, nextSum, svc, call,
                   conn, out, last, est, rng, resp>>

\* task.delete(): activities and summary cascade
DeleteTask(t) ==
    /\ t \in DOMAIN tasks
    /\ tasks' = [x \in DOMAIN tasks \ {t} |-> tasks[x]]
    /\ acts' = acts \ ActsOf(acts, t)
    /\ sums' = {s \in sums : s.task # t}
    /\ UNCHANGED <<nextTask, nextAct, now, nextSum, svc, call, conn,
                   out, last, est, rng, resp>>

\* time passes
Tick ==
    /\ now < MaxTime
    /\ now' = now + 1
    /\ UNCHANGED <<tasks, nextTask, acts, nextAct, sums, nextSum, svc,
                   call, conn, out, last, est, rng, resp>>

(* ---------------- summary service, one caller at a time --------------- *)
ActIds(A, t) == {a.id : a \in ActsOf(A, t)}

\* TaskSummaryService.create_or_update_summary(task_id)
create_or_update_summary(t) ==
    /\ svc.n < MaxCalls
    /\ \E q \in ActivitiesRead(tasks, acts, sums, t), prov \in ProvOutcomes :
          LET o == CreateOrUpdate(tasks, acts, sums, nextSum, t, q, prov)
          IN  /\ sums' = o.sums
              /\ nextSum' = o.nextSum
              /\ svc' = WithHistory(
                            SvcRecord(svc.n + 1, "create_or_update", t, o,
                                      get_by_task_id(tasks, sums, t), ActIds(acts, t)),
                            o, t, get_by_task_id(tasks, sums, t))
    /\ UNCHANGED <<tasks, nextTask, acts, nextAct, now, call, conn, out, last, est, rng, resp>>

\* TaskSummaryService.delete_summary(task_id)
delete_summary(t) ==
    /\ svc.n < MaxCalls
    /\ sums' = DeleteByTaskId(tasks, sums, t)
    /\ svc' = [IdleSvc EXCEPT !.n = svc.n + 1, !.op = "delete", !.task = t,
                              !.kind = IF get_by_task_id(tasks, sums, t) # {}
                                       THEN "deleted" ELSE "absent",
                              !.before = get_by_task_id(tasks, sums, t),
                              !.found = get_by_task_id(tasks, sums, t),
                              !.passed = IF get_by_task_id(tasks, sums, t) # {}
                                         THEN SetHistory(svc.passed, t, {})
                                         ELSE svc.passed,
                              !.stored = IF get_by_task_id(tasks, sums, t) # {}
                                         THEN SetHistory(svc.stored, t, {})
                                         ELSE svc.stored]
    /\ UNCHANGED <<tasks, nextTask, acts, nextAct, now, nextSum, call,
                   conn, out, last, est, rng, resp>>

\* TaskSummaryService.get_summary(task_id): found holds what it returned
get_summary(t) ==
    /\ svc.n < MaxCalls
    /\ svc' = [IdleSvc EXCEPT !.n = svc.n + 1, !.op = "get", !.task = t,
                              !.kind = "returned",
                              !.before = get_by_task_id(tasks, sums, t),
                              !.found = get_by_task_id(tasks, sums, t),
                              !.passed = svc.passed, !.stored = svc.stored]
    /\ UNCHANGED <<tasks, nextTask, acts, nextAct, now, sums, nextSum, call,
                   conn, out, last, est, rng, resp>>

(* -------- summary service, two callers interleaving at the store ------- *)
InFlight == Cardinality({c \in Conns : call[c].pc # "idle"})

\* create_or_update_summary up to its reads: get_by_id, get_by_task_id and
\* the activity query
ConcRead(c, t) ==
    /\ call[c].pc = "idle"
    /\ svc.n + InFlight < MaxConcCalls
    /\ \E q \in ActivitiesRead(tasks, acts, sums, t) :
          LET existing == get_by_task_id(tasks, sums, t)
              done == t \notin DOMAIN tasks \/ (existing # {} /\ q = <<>>)
              o == CreateOrUpdate(tasks, acts, sums, nextSum, t, q, IdleCall.prov)
          IN  IF done
              THEN /\ svc' = SvcRecord(svc.n + 1, "create_or_update", t, o,
                                       existing, ActIds(acts, t))
                   /\ call' = call
              ELSE /\ call' = [call EXCEPT ![c] =
                                  [pc |-> IF q = <<>> THEN "write" ELSE "gen",
                                   task |-> t, existing |-> existing,
                                   seen |-> ActIds(acts, t), q |-> q,
                                   prov |-> IdleCall.prov]]
                   /\ svc' = svc
    /\ UNCHANGED <<tasks, nextTask, acts, nextAct, now, sums, nextSum, conn, out,
                   last, est, rng, resp>>

\* the provider call of _generate_ai_summary returns or raises
ConcGenerate(c, prov) ==
    /\ call[c].pc = "gen"
    /\ IF prov.ok
       THEN /\ call' = [call EXCEPT ![c].pc = "write", ![c].prov = prov]
            /\ svc' = svc
       ELSE /\ call' = [call EXCEPT ![c] = IdleCall]
            /\ svc' = [SvcRecord(svc.n + 1, "create_or_update", call[c].task,
                                 Outcome("provider_error", sums, nextSum, {}, TRUE,
                                         Ids(call[c].q), <<>>, 0),
                                 call[c].existing, call[c].seen)
                          EXCEPT !.found = get_by_task_id(tasks, sums, call[c].task)]
    /\ UNCHANGED <<tasks, nextTask, acts, nextAct, now, sums, nextSum, conn, out,
                   last, est, rng, resp>>

\* the repository write: create(...) or update(...) on the summary object
\* that was read
ConcWrite(c) ==
    /\ call[c].pc = "write"
    /\ LET k == call[c]
           o == IF k.existing = {}
                THEN CreateNewSummary(tasks, sums, nextSum, k.task, k.q, k.prov)
                ELSE UpdateExistingSummary(sums, nextSum,
                                           CHOOSE s \in k.existing : TRUE, k.q, k.prov)
       IN  /\ sums' = o.sums
           /\ nextSum' = o.nextSum
           /\ svc' = [SvcRecord(svc.n + 1, "create_or_update", k.task, o,
                                k.existing, k.seen)
                         EXCEPT !.found = get_by_task_id(tasks, sums, k.task)]
    /\ call' = [call EXCEPT ![c] = IdleCall]
    /\ UNCHANGED <<tasks, nextTask, acts, nextAct, now, conn, out, last, est, rng, resp>>

\* the interleaved runs use one task row: the race does not read its fields
ConcTaskSample == CHOOSE r \in SummaryTaskSamples : r.status = "todo"

ConcNext ==
    \/ CreateTask(ConcTaskSample)
    \/ \E t \in 1..MaxTask : AddActivity(t)
    \/ Tick
    \/ \E c \in Conns, t \in 0..MaxTask : ConcRead(c, t)
    \/ \E c \in Conns, prov \in ProvOutcomes : ConcGenerate(c, prov)
    \/ \E c \in Conns : ConcWrite(c)

SpecConc == Init /\ [][ConcNext]_vars

(* ---------------- websockets/base.py: consumer plumbing ---------------- *)
\* the step lists declared by the four handlers
EstimationSteps ==
    << [name |-> "validate", progress |-> 10, message |-> <<"Validating task data...">>],
       [name |-> "analyze", progress |-> 30, message |-> <<"Analyzing task complexity...">>],
       [name |-> "similar", progress |-> 60, message |-> <<"Finding similar tasks...">>],
       [name |-> "calculate", progress |-> 80, message |-> <<"Calculating estimation...">>] >>

SummarySteps ==
    << [name |-> "load_activities", progress |-> 20, message |-> <<"Loading task activities...">>],
       [name |-> "analyze_changes", progress |-> 40, message |-> <<"Analyzing changes...">>],
       [name |-> "generate_summary", progress |-> 70, message |-> <<"Generating summary...">>],
       [name |-> "format_output", progress |-> 90, message |-> <<"Formatting output...">>] >>

ParseSteps ==
    << [name |-> "analyze_text", progress |-> 30, message |-> <<"Analyzing text...">>],
       [name |-> "extract_data", progress |-> 70, message |-> <<"Extracting task information...">>] >>

CreateSteps ==
    << [name |-> "parse_text", progress |-> 20, message |-> <<"Parsing task description...">>],
       [name |-> "create_task", progress |-> 50, message |-> <<"Creating task...">>],
       [name |-> "estimate_task", progress |-> 80, message |-> <<"Estimating task complexity...">>] >>

Kinds == {"estimate", "generate_summary", "parse", "create"}

TaskScoped(kind) == kind \in {"estimate", "generate_summary"}

StepsOf(kind) ==
    CASE kind = "estimate" -> EstimationSteps
      [] kind = "generate_summary" -> SummarySteps
      [] kind = "parse" -> ParseSteps
      [] OTHER -> CreateSteps

\* BaseWebSocketConsumer.send_progress
ProgressEvent(message, progress, step) ==
    [type |-> "progress", message |-> message, progress |-> progress, step |-> step]

\* BaseWebSocketConsumer.send_error: the code key is there only when given
ErrorEvent(message, code) ==
    IF code # "" THEN [type |-> "error", message |-> message, code |-> code]
    ELSE [type |-> "error", message |-> message]

\* BaseWebSocketConsumer.send_success
SuccessEvent(data) == [type |-> "success", data |-> data]

send_error(ev, message, code) == Append(ev, ErrorEvent(message, code))

set_operation_steps_keep_cursor(cn, steps) == [cn EXCEPT !.operation_steps = steps]

\* ProgressTrackingMixin.set_operation_steps
set_operation_steps(cn, steps) ==
    [cn EXCEPT !.operation_steps = steps, !.current_step = 0]

\* ProgressTrackingMixin.progress_to_next_step, on x = [cn, ev]: the consumer
\* and the events sent so far
progress_to_next_step(x) ==
    IF x.cn.current_step < Len(x.cn.operation_steps)
    THEN LET step_info == x.cn.operation_steps[x.cn.current_step + 1]
         IN  [cn |-> [x.cn EXCEPT !.current_step = @ + 1],
              ev |-> Append(x.ev, ProgressEvent(step_info.message,
                                                step_info.progress, step_info.name))]
    ELSE x

complete_operation_swapped(ev, success_data) ==
    ev \o << SuccessEvent(success_data),
             ProgressEvent(<<"Operation completed!">>, 100, "complete") >>

\* ProgressTrackingMixin.complete_operation
complete_operation(ev, success_data) ==
    ev \o << ProgressEvent(<<"Operation completed!">>, 100, "complete"),
             SuccessEvent(success_data) >>

\* how a handler ended: the consumer, the events, whether it completed, and
\* the unit of work that raised (named as the declared step it belongs to)
Handled(cn, ev, path, unit) ==
    [cn |-> cn, ev |-> ev, path |-> path, unit |-> unit, unexpected |-> FALSE]

\* the handler ended on an exception that is not of the operation's own
\* error class (EstimationError, SummaryError, ParserError)
Unexpected(h) == [h EXCEPT !.unexpected = TRUE]

\* str(e) of an exception raised below the consumers
ExcTexts == {"timeout", "key sk-1"}

\* an exception raised in the work of a step: unexpected when it is not of
\* the operation's own error class, wrapped when it is raised inside the
\* hosted-model parser's try block
NoFault == [unit |-> "none", unexpected |-> FALSE, wrapped |-> FALSE, text |-> ""]

Faults(unit, wrapped) ==
    [unit : {unit}, unexpected : {FALSE}, wrapped : {FALSE}, text : ExcTexts] \cup
    [unit : {unit}, unexpected : {TRUE}, wrapped : wrapped, text : ExcTexts]

(* ------------------- estimation/service.py: readiness ------------------ *)
\* TaskEstimator._validate_task as a predicate
ValidTask(task) == strip(task.title) # <<>> /\ strip(task.description) # <<>>

\* TaskEstimationService.can_estimate
can_estimate(T, t) == IF t \notin DOMAIN T THEN FALSE ELSE ValidTask(T[t])

(* --------------------- ai_consumers.py: the handlers ------------------- *)
\* str(e) of the EstimationError that TaskEstimationService.estimate_task
\* raises: the estimator's own EstimationError as it is, any other exception
\* wrapped with its text
estimate_task_error(fault) ==
    IF fault.unexpected THEN <<"Estimation failed: ", fault.text>> ELSE <<fault.text>>

\* TaskEstimationConsumer.handle_estimation_request
handle_estimation_request(cn, T, fault) ==
    LET x1 == progress_to_next_step(
                  [cn |-> set_operation_steps(cn, EstimationSteps), ev |-> <<>>])
        x4 == progress_to_next_step(progress_to_next_step(progress_to_next_step(x1)))
    IN  IF ~can_estimate(T, cn.task_id)
        THEN Unexpected(Handled(x1.cn,
                     send_error(x1.ev, <<"Failed to estimate task">>, "internal_error"),
                     "failed", "validate"))
        ELSE IF fault.unit \in {"similar", "calculate"}
        THEN [Handled(x4.cn,
                      send_error(x4.ev, <<"Estimation failed: ">> \o estimate_task_error(fault),
                                 "estimation_error"),
                      "failed", fault.unit)
              EXCEPT !.unexpected = fault.unexpected]
        ELSE Handled(x4.cn,
                     complete_operation(x4.ev, [task_id |-> cn.task_id]),
                     "ok", "none")

\* TaskSummaryConsumer.handle_summary_request, with o the outcome of
\* create_or_update_summary(task_id)
handle_summary_request(cn, o) ==
    LET x0 == [cn |-> set_operation_steps(cn, SummarySteps), ev |-> <<>>]
        x4 == progress_to_next_step(progress_to_next_step(
                  progress_to_next_step(progress_to_next_step(x0))))
    IN  IF Raised(o.kind)
        THEN [Handled(x4.cn,
                      send_error(x4.ev, <<"Failed to generate summary">>, "summary_error"),
                      "failed",
                      IF o.kind = "not_found" THEN "load_activities"
                      ELSE "generate_summary")
              EXCEPT !.unexpected = o.kind # "provider_error"]
        ELSE Handled(x4.cn,
                     complete_operation(x4.ev,
                         [task_id |-> cn.task_id, summary |-> o.ret]),
                     "ok", "none")

\* TaskParserService._validate_parsing_request on the stripped text
ParseValid(text) == text # <<>> /\ Len(strip(text)) >= MinParseLen

\* str(e) of the ParserError of parse_text_to_task_data's pre-validation
ValidationFailed ==
    <<"Validation failed: ", "Text too short - please provide more details">>

\* str(e) of the ParserError raised by the parser: its own ParserError as
\* it is, any other exception inside OpenAITaskParser.parse_text wrapped
\* with its text
parse_text_error(fault) ==
    IF fault.unexpected THEN <<"OpenAI parsing error: ", fault.text>> ELSE <<fault.text>>

\* TaskParseConsumer.handle_parse_request, after the "Text is required" check
handle_parse_request(cn, text, fault) ==
    LET x0 == [cn |-> set_operation_steps(cn, ParseSteps), ev |-> <<>>]
        x2 == progress_to_next_step(progress_to_next_step(x0))
    IN  IF ~ParseValid(text)
        THEN Handled(x2.cn,
                     send_error(x2.ev, <<"Parsing failed: ">> \o ValidationFailed,
                                "parse_error"),
                     "failed", "analyze_text")
        ELSE IF fault.unit = "extract_data"
        THEN [Handled(x2.cn,
                      IF fault.unexpected /\ ~fault.wrapped
                      THEN send_error(x2.ev, <<"Failed to parse text">>, "internal_error")
                      ELSE send_error(x2.ev, <<"Parsing failed: ">> \o parse_text_error(fault),
                                      "parse_error"),
                      "failed", "extract_data")
              EXCEPT !.unexpected = fault.unexpected]
        ELSE Handled(x2.cn, complete_operation(x2.ev, [parsed_data |-> text]),
                     "ok", "none")

\* TaskCreateConsumer.handle_create_request, after the "Text is required"
\* check. An AnonymousUser has id None, so the task gets no reporter and
\* Task.objects.create raises; reporterOk: the User row was found
handle_create_request(cn, text, fault, reporterOk, newId) ==
    LET x0 == [cn |-> set_operation_steps(cn, CreateSteps), ev |-> <<>>]
        x3 == progress_to_next_step(progress_to_next_step(progress_to_next_step(x0)))
    IN  IF ~ParseValid(text)
        THEN Handled(x3.cn,
                     send_error(x3.ev, <<"Failed to parse text: ">> \o ValidationFailed,
                                "parse_error"),
                     "failed", "parse_text")
        ELSE IF fault.unit = "parse_text"
        THEN [Handled(x3.cn,
                      IF fault.unexpected /\ ~fault.wrapped
                      THEN send_error(x3.ev, <<"Failed to create task">>, "internal_error")
                      ELSE send_error(x3.ev,
                                      <<"Failed to parse text: ">> \o parse_text_error(fault),
                                      "parse_error"),
                      "failed", "parse_text")
              EXCEPT !.unexpected = fault.unexpected]
        ELSE IF cn.user = "anon" \/ ~reporterOk
        THEN Unexpected(Handled(x3.cn,
                     send_error(x3.ev, <<"Failed to create task">>, "internal_error"),
                     "failed", "create_task"))
        ELSE Handled(x3.cn, complete_operation(x3.ev, [task |-> newId]),
                     "ok", "none")

(* ------------------ base.py: connect and receive ----------------------- *)
Closed == [kind |-> "closed"]

\* the consumer object after __init__ and connect()
NewConsumer(kind, tid, user) ==
    [kind |-> kind, task_id |-> tid, task |-> None, user |-> user,
     operation_steps |-> <<>>, current_step |-> 0]

ConnectionEvent ==
    [type |-> "connection", status |-> "connected",
     message |-> <<"WebSocket connected successfully">>]

\* inbound frames: text that is not JSON, JSON that is not an object, and
\* objects with an action and a text ("text" may hold a non-string)
TextSamples ==
    { [str |-> TRUE, s |-> <<>>],
      [str |-> TRUE, s |-> <<" ", " ">>],
      [str |-> TRUE, s |-> <<"h", "i">>],
      [str |-> TRUE, s |-> <<" ", "f", "i", "x", " ", "i", "t", " ">>],
      [str |-> FALSE, s |-> <<>>] }

NoText == [str |-> TRUE, s |-> <<>>]

Frames ==
    [json : {"invalid", "array"}, action : {""}, text : {NoText}] \cup
    [json : {"object"}, action : {"", "unknown_action"}, text : {NoText}] \cup
    [json : {"object"}, action : {"estimate", "generate_summary"}, text : {NoText}] \cup
    [json : {"object"}, action : {"parse", "create"}, text : TextSamples]

check_permissions_skipped(cn, T) == [cn |-> cn, denied |-> FALSE]

\* TaskWebSocketMixin.check_permissions: the consumer afterwards (self.task
\* is kept once loaded) and whether it raised
check_permissions(cn, T) ==
    IF TaskScoped(cn.kind) /\ cn.task_id # 0
    THEN LET loaded == IF cn.task # None THEN cn.task
                       ELSE IF cn.task_id \in DOMAIN T THEN cn.task_id ELSE None
         IN  [cn |-> [cn EXCEPT !.task = loaded], denied |-> loaded = None]
    ELSE [cn |-> cn, denied |-> FALSE]

NotFoundMessage(tid) ==
    <<"Permission denied: ", "Task ", ToString(tid), " not found">>

\* a rejection that sends nothing
RejectedSilently(cn, message) == Handled(cn, <<>>, "rejected", "none")

Rejected(cn, message) == Handled(cn, send_error(<<>>, message, ""), "rejected", "none")

\* BaseWebSocketConsumer.receive with the consumer's handle_message; h is
\* what the action's handler does when it is reached
receive(cn, m, T, h) ==
    LET p == check_permissions(cn, T)
    IN  IF m.json = "invalid" THEN Rejected(cn, <<"Invalid JSON format">>)
        ELSE IF m.json # "object"
        THEN Rejected(cn, <<"Message must be a JSON object">>)
        ELSE IF m.action = ""
        THEN Rejected(cn, <<"Message must include 'action' field">>)
        ELSE IF p.denied THEN Rejected(p.cn, NotFoundMessage(cn.task_id))
        ELSE IF m.action # cn.kind
        THEN Rejected(p.cn, <<"Unknown action: ", m.action>>)
        ELSE IF cn.kind \in {"parse", "create"} /\ ~m.text.str
        THEN Rejected(p.cn, <<"Internal server error">>)
        ELSE IF cn.kind \in {"parse", "create"} /\ strip(m.text.s) = <<>>
        THEN Rejected(p.cn, <<"Text is required">>)
        ELSE [h EXCEPT !.cn.task = p.cn.task]

HandlerReached(cn, m, T) ==
    receive(cn, m, T, Handled(cn, <<>>, "ok", "none")).path = "ok"

\* estimate_task: get_similar_tasks / the hosted model call ("similar") or
\* building and validating the result ("calculate") raises
EstimateFaults ==
    {NoFault} \cup Faults("similar", {FALSE}) \cup Faults("calculate", {FALSE})

ParseFaults == {NoFault} \cup Faults("extract_data", BOOLEAN)

CreateFaults == {NoFault} \cup Faults("parse_text", BOOLEAN)

\* what is remembered of the last inbound message of a connection
Last(n, r, m, cn, T) ==
    [n |-> n, path |-> r.path, unit |-> r.unit, unexpected |-> r.unexpected,
     action |-> m.action, frame |-> m,
     existed |-> cn.task_id \in DOMAIN T, cached |-> cn.task # None]

NoLast == [n |-> 0, path |-> "none", unit |-> "none", unexpected |-> FALSE,
           action |-> "", frame |-> <<>>,
           existed |-> FALSE, cached |-> FALSE]

\* BaseWebSocketConsumer.connect: all four consumers accept without a user
\* BaseWebSocketConsumer.requires_authentication and its four overrides
requires_authentication_default(kind) == TRUE

requires_authentication(kind) == IF kind \in Kinds THEN FALSE ELSE TRUE

\* a consumer class that keeps the base class's requires_authentication
DefaultConsumer == "default"

AuthCloseCode == 4001

\* the connection after close(code=4001)
Refused(kind, user) ==
    [kind |-> "closed", code |-> AuthCloseCode, consumer |-> kind, user |-> user]

Connect(c, kind, tid, user) ==
    /\ conn[c].kind = "closed"
    /\ TaskScoped(kind) \/ tid = 0
    /\ kind \in {"create", DefaultConsumer} \/ user = "anon"
    /\ IF requires_authentication(kind) /\ user = "anon"
       THEN /\ conn' = [conn EXCEPT ![c] = Refused(kind, user)]
            /\ out' = [out EXCEPT ![c] = <<>>]
       ELSE /\ conn' = [conn EXCEPT ![c] = NewConsumer(kind, tid, user)]
            /\ out' = [out EXCEPT ![c] = <<ConnectionEvent>>]
    /\ UNCHANGED <<tasks, nextTask, acts, nextAct, now, sums, nextSum, svc, call,
                   last, est, rng, resp>>

Open(c, kind) == conn[c].kind = kind /\ last[c].n < MaxMsgs

\* a frame arrives at a TaskEstimationConsumer
ReceiveEstimate(c, m, fault) ==
    /\ Open(c, "estimate")
    /\ LET r == receive(conn[c], m, tasks,
                       handle_estimation_request(conn[c], tasks, fault))
       IN  /\ conn' = [conn EXCEPT ![c] = r.cn]
           /\ out' = [out EXCEPT ![c] = r.ev]
           /\ last' = [last EXCEPT ![c] = Last(@.n + 1, r, m, conn[c], tasks)]
    /\ UNCHANGED <<tasks, nextTask, acts, nextAct, now, sums, nextSum, svc, call,
                   est, rng, resp>>

\* a frame arrives at a TaskSummaryConsumer
ReceiveSummary(c, m, prov) ==
    /\ Open(c, "generate_summary")
    /\ svc.n < MaxCalls
    /\ \E q \in ActivitiesRead(tasks, acts, sums, conn[c].task_id) :
          LET o == CreateOrUpdate(tasks, acts, sums, nextSum, conn[c].task_id, q, prov)
              r == receive(conn[c], m, tasks, handle_summary_request(conn[c], o))
              reached == HandlerReached(conn[c], m, tasks)
          IN  /\ conn' = [conn EXCEPT ![c] = r.cn]
              /\ out' = [out EXCEPT ![c] = r.ev]
              /\ last' = [last EXCEPT ![c] = Last(@.n + 1, r, m, conn[c], tasks)]
              /\ sums' = IF reached THEN o.sums ELSE sums
              /\ nextSum' = IF reached THEN o.nextSum ELSE nextSum
              /\ svc' = IF reached
                        THEN SvcRecord(svc.n + 1, "create_or_update",
                                       conn[c].task_id, o,
                                       get_by_task_id(tasks, sums, conn[c].task_id),
                                       ActIds(acts, conn[c].task_id))
                        ELSE svc
    /\ UNCHANGED <<tasks, nextTask, acts, nextAct, now, call, est, rng, resp>>

\* a frame arrives at a TaskParseConsumer
ReceiveParse(c, m, fault) ==
    /\ Open(c, "parse")
    /\ LET r == receive(conn[c], m, tasks,
                       handle_parse_request(conn[c], strip(m.text.s), fault))
       IN  /\ conn' = [conn EXCEPT ![c] = r.cn]
           /\ out' = [out EXCEPT ![c] = r.ev]
           /\ last' = [last EXCEPT ![c] = Last(@.n + 1, r, m, conn[c], tasks)]
    /\ UNCHANGED <<tasks, nextTask, acts, nextAct, now, sums, nextSum, svc, call,
                   est, rng, resp>>

\* the Task row create_task_from_text builds from the enhanced parse result
ParsedTaskRow == CHOOSE r \in TaskSamples : ValidTask(r) /\ r.status = "todo"

\* a frame arrives at a TaskCreateConsumer; estimated: the automatic
\* estimation succeeded, so task.save() logs the estimate change
ReceiveCreate(c, m, fault, reporterOk, estimated) ==
    /\ Open(c, "create")
    /\ LET r == receive(conn[c], m, tasks,
                       handle_create_request(conn[c], strip(m.text.s), fault,
                                             reporterOk, nextTask))
           made == r.path = "ok"
           logged == {NewActivity(nextAct, nextTask, now)} \cup
                     IF estimated THEN {NewActivity(nextAct + 1, nextTask, now)}
                     ELSE {}
       IN  /\ made => nextTask <= MaxTask /\ nextAct + 1 <= MaxActs
           /\ conn' = [conn EXCEPT ![c] = r.cn]
           /\ out' = [out EXCEPT ![c] = r.ev]
           /\ last' = [last EXCEPT ![c] = Last(@.n + 1, r, m, conn[c], tasks)]
           /\ tasks' = IF made THEN tasks @@ (nextTask :> ParsedTaskRow) ELSE tasks
           /\ nextTask' = IF made THEN nextTask + 1 ELSE nextTask
           /\ acts' = IF made THEN acts \cup logged ELSE acts
           /\ nextAct' = IF made THEN nextAct + Cardinality(logged) ELSE nextAct
    /\ UNCHANGED <<now, sums, nextSum, svc, call, est, rng, resp>>

WsNext ==
    \/ \E row \in TaskSamples : CreateTask(row)
    \/ \E t \in 1..MaxTask : DeleteTask(t)
    \/ \E t \in 1..MaxTask : AddActivity(t)
    \/ \E c \in WsConns, kind \in Kinds \cup {DefaultConsumer}, tid \in 0..MaxTask,
          user \in {"anon", "auth"} :
          Connect(c, kind, tid, user)
    \/ \E c \in WsConns, m \in Frames, fault \in EstimateFaults :
          ReceiveEstimate(c, m, fault)
    \/ \E c \in WsConns, m \in Frames, prov \in ProvOutcomes : ReceiveSummary(c, m, prov)
    \/ \E c \in WsConns, m \in Frames, fault \in ParseFaults : ReceiveParse(c, m, fault)
    \/ \E c \in WsConns, m \in Frames, fault \in CreateFaults,
          reporterOk \in BOOLEAN, estimated \in BOOLEAN :
          ReceiveCreate(c, m, fault, reporterOk, estimated)

SpecWs == Init /\ [][WsNext]_vars

SumNext ==
    \/ \E row \in SummaryTaskSamples : CreateTask(row)
    \/ \E row \in SummaryTaskSamples : InsertTaskRow(row)
    \/ \E t \in 1..MaxTask : AddActivity(t)
    \/ Tick
    \/ \E t \in 0..MaxTask : create_or_update_summary(t)
    \/ \E t \in 0..MaxTask : delete_summary(t)
    \/ \E t \in 0..MaxTask : get_summary(t)

SpecSum == Init /\ [][SumNext]_vars

(* ------------- estimation/service.py: the estimation service ----------- *)
MaxEstTasks == 3

MaxEstCalls == 1

MaxLimit == 3

MaxSimTasks == 7

MaxSimCalls == 2

validate_estimation_request_title_only(task) ==
    IF strip(task.title) = <<>> THEN <<"Task must have a title">> ELSE <<>>

\* TaskEstimationService._validate_estimation_request: the errors
validate_estimation_request(task) ==
    (IF strip(task.title) = <<>> THEN <<"Task must have a title">> ELSE <<>>) \o
    (IF strip(task.description) = <<>> THEN <<"Task must have a description">> ELSE <<>>)

\* "; ".join(errors)
RECURSIVE JoinErrors(_)
JoinErrors(errors) ==
    IF Len(errors) <= 1 THEN errors
    ELSE <<Head(errors), "; ">> \o JoinErrors(Tail(errors))

validate_estimation_result_any_hours(result) ==
    IF ~(0 <= result.confidence_score /\ result.confidence_score <= MaxConfidence)
    THEN <<"Confidence score must be between 0 and 1">>
    ELSE IF TextLen(result.reasoning) = 0
            \/ TextLen(StripText(result.reasoning)) < MinReasoningLen
    THEN <<"Estimation must include reasoning">>
    ELSE <<>>

\* TaskEstimationService._validate_estimation_result: the message of the
\* EstimationError it raises, <<>> when it raises none
validate_estimation_result(result) ==
    IF result.estimated_hours <= 0
    THEN <<"Estimated hours must be positive">>
    ELSE IF ~(0 <= result.confidence_score /\ result.confidence_score <= MaxConfidence)
    THEN <<"Confidence score must be between 0 and 1">>
    ELSE IF TextLen(result.reasoning) = 0
            \/ TextLen(StripText(result.reasoning)) < MinReasoningLen
    THEN <<"Estimation must include reasoning">>
    ELSE <<>>

\* self.estimator.estimate_task(task): what the estimator of the service
\* can do; answer is the hosted model's answer ("ai") or the result the
\* estimator hands back ("custom")
EstimatorOutcomes(T, t, estimator, answer) ==
    IF estimator \in {"ai", "mock"} /\ ~ValidTask(T[t])
    THEN { Raises("EstimationError", <<"Task must have a title">>) }
    ELSE CASE estimator = "ai" ->
                { AIEstimate(q, answer) : q \in get_similar_tasks(T, t, 15) }
           [] estimator = "mock" ->
                { MockEstimate(T[t], t, q) : q \in get_similar_tasks(T, t, 5) }
           [] OTHER -> { Returned(answer) }

\* the outcome of a service call: what the estimator's outcome o becomes
\* after the post-estimation validation, and whether the estimator ran
ServiceOutcome(o, invoked) ==
    [kind |-> o.kind, result |-> o.result, error |-> o.error, invoked |-> invoked]

PostValidated(o) ==
    IF o.kind = "returned" /\ validate_estimation_result(o.result) # <<>>
    THEN Raises("EstimationError", validate_estimation_result(o.result))
    ELSE o

\* TaskEstimationService.estimate_task: the outcomes of one call
estimate_task(T, t, estimator, answer) ==
    IF t \notin DOMAIN T
    THEN { ServiceOutcome(Raises("DoesNotExist", <<"Task matching query does not exist.">>),
                          FALSE) }
    ELSE IF validate_estimation_request(T[t]) # <<>>
    THEN { ServiceOutcome(
               Raises("EstimationError",
                      <<"Task validation failed: ">>
                          \o JoinErrors(validate_estimation_request(T[t]))),
               FALSE) }
    ELSE { ServiceOutcome(PostValidated(o), TRUE) :
              o \in EstimatorOutcomes(T, t, estimator, answer) }

\* a caller runs service.estimate_task(t)
EstimateTaskCall(t, estimator, answer, maxCalls) ==
    /\ est.n < maxCalls
    /\ \E o \in estimate_task(tasks, t, estimator, answer) :
          /\ est' = EstRecord(est.n + 1, "estimate_task", t, estimator, answer,
                              o.kind, o.invoked, o.result, o.error)
          /\ rng' = IF estimator = "mock" /\ o.invoked
                    THEN RngAfterMock(o.result.similar_tasks, t)
                    ELSE rng
    /\ UNCHANGED <<tasks, nextTask, acts, nextAct, now, sums, nextSum, svc,
                   call, conn, out, last, resp>>

\* a caller runs service.can_estimate(t); dbError: the repository raises
\* in exists or get_by_id, which can_estimate catches
CanEstimateCall(t, dbError, maxCalls) ==
    /\ est.n < maxCalls
    /\ est' = EstRecord(est.n + 1, "can_estimate", t, "none",
                        IF dbError THEN <<"database error">> ELSE <<>>,
                        IF ~dbError /\ can_estimate(tasks, t) THEN "true" ELSE "false",
                        FALSE, <<>>, <<>>)
    /\ UNCHANGED <<tasks, nextTask, acts, nextAct, now, sums, nextSum, svc,
                   call, conn, out, last, rng, resp>>

\* a caller runs task_repository.get_similar_tasks(task, limit) with the
\* stored task t
GetSimilarTasksCall(t, limit, maxCalls) ==
    /\ est.n < maxCalls
    /\ t \in DOMAIN tasks
    /\ \E q \in get_similar_tasks(tasks, t, limit) :
          est' = EstRecord(est.n + 1, "get_similar_tasks", t, "none", limit,
                           "returned", FALSE, q, <<>>)
    /\ UNCHANGED <<tasks, nextTask, acts, nextAct, now, sums, nextSum, svc,
                   call, conn, out, last, rng, resp>>

\* the estimation service and the repository over a store that changes
EstNext ==
    \/ \E row \in EstTaskSamples : BulkCreateTask(row, MaxEstTasks)
    \/ Tick
    \/ \E t \in 1..MaxEstTasks : TouchTask(t)
    \/ \E t \in 0..MaxEstTasks, dbError \in BOOLEAN : CanEstimateCall(t, dbError, MaxEstCalls)
    \/ \E t \in 0..MaxEstTasks, answer \in AIPayloads :
          EstimateTaskCall(t, "ai", answer, MaxEstCalls)
    \/ \E t \in 0..MaxEstTasks : EstimateTaskCall(t, "mock", <<>>, MaxEstCalls)
    \/ \E t \in 0..MaxEstTasks, answer \in CustomResults :
          EstimateTaskCall(t, "custom", answer, MaxEstCalls)
    \/ \E t \in 1..MaxEstTasks, limit \in 0..MaxLimit :
          GetSimilarTasksCall(t, limit, MaxEstCalls)

SpecEst == Init /\ [][EstNext]_vars

(* ------------- stores with more completed tasks than a query takes ----- *)
\* task 1 is open and well-formed; tasks 2.. are done with an estimate
SimQuery == EstRow(Words, <<"d", "o">>, "todo", "high", NullEstimate)

SimTask(estimate, updated_at) ==
    [EstRow(GoodTitle, <<"d", "o">>, "done", "medium", estimate)
        EXCEPT !.updated_at = updated_at]

\* the updated_at of tasks 2..: all different with task 2 the latest, or
\* the same for the fifth and sixth latest, or the same for the first two
SimTimes ==
    LET distinct == [i \in 2..MaxSimTasks |-> MaxSimTasks + 1 - i]
    IN  { distinct,
          [distinct EXCEPT ![MaxSimilar + 2] = distinct[MaxSimilar + 1]],
          [distinct EXCEPT ![3] = distinct[2]] }

SimStores ==
    { [i \in 1..k |-> IF i = 1 THEN SimQuery ELSE SimTask(e[i], u[i])] :
        k \in 1..MaxSimTasks, e \in [2..MaxSimTasks -> {1, 9}], u \in SimTimes }

SimInit ==
    /\ tasks \in SimStores
    /\ nextTask = Len(tasks) + 1
    /\ acts = {}
    /\ nextAct = 1
    /\ now = MaxSimTasks
    /\ sums = {}
    /\ nextSum = 1
    /\ svc = IdleSvc
    /\ call = [c \in Conns |-> IdleCall]
    /\ conn = [c \in Conns |-> [kind |-> "closed"]]
    /\ out = [c \in Conns |-> <<>>]
    /\ last = [c \in Conns |-> [n |-> 0, path |-> "none", unit |-> "none",
                             unexpected |-> FALSE, action |-> "",
                             frame |-> <<>>,
                             existed |-> FALSE, cached |-> FALSE]]
    /\ est = IdleEst
    /\ rng = seed(0)
    /\ resp = IdleResp

\* calls of the estimation service, with the built-in estimators, on a
\* store that does not change
SimNext ==
    \/ \E t \in 1..2, answer \in AIPayloads : EstimateTaskCall(t, "ai", answer, MaxSimCalls)
    \/ \E t \in 1..2 : EstimateTaskCall(t, "mock", <<>>, MaxSimCalls)

SpecSim == SimInit /\ [][SimNext]_vars

(* ------------------ parser/base.py: shared parser code ----------------- *)
\* texts are sequences of tokens (words, numbers, blanks, punctuation);
\* scores are in hundredths
MaxTextLen == 2000

MaxTitleLen == 100

MinStoryPoints == 1

MaxStoryPoints == 21

\* str.lower().strip() of the values the samples use
LowerStrip(s) ==
    CASE s = "High" -> "high"
      [] s = " URGENT " -> "urgent"
      [] s = "Bug" -> "bug"
      [] s = "Fix" -> "fix"
      [] s = "HIGH" -> "high"
      [] OTHER -> s

Lower(text) == [i \in DOMAIN text |-> LowerStrip(text[i])]

\* text[:n], cut at a token boundary
RECURSIVE Truncate(_, _)
Truncate(text, n) ==
    IF text = <<>> \/ Len(Head(text)) > n THEN <<>>
    ELSE <<Head(text)>> \o Truncate(Tail(text), n - Len(Head(text)))

\* TaskParser._validate_text: the message of the ParserError, <<>> for none
validate_text(text) ==
    IF TextLen(StripText(text)) = 0 THEN <<"Text cannot be empty">>
    ELSE IF TextLen(StripText(text)) < MinParseLen
    THEN <<"Text too short - please provide more details">>
    ELSE IF TextLen(text) > MaxTextLen
    THEN <<"Text too long - please keep under 2000 characters">>
    ELSE <<>>

\* TaskParser._normalize_priority
normalize_priority(priority) ==
    LET p == LowerStrip(priority)
    IN  CASE p \in {"low", "minor", "trivial"} -> "low"
          [] p \in {"medium", "normal", "moderate"} -> "medium"
          [] p \in {"high", "important", "major"} -> "high"
          [] p \in {"urgent", "critical", "blocker", "emergency"} -> "urgent"
          [] OTHER -> "medium"

\* TaskParser._normalize_task_type
normalize_task_type(task_type) ==
    LET t == LowerStrip(task_type)
    IN  CASE t \in {"bug", "issue", "defect", "error", "problem"} -> "bug"
          [] t \in {"feature", "enhancement", "improvement", "new"} -> "feature"
          [] t \in {"task", "todo", "work", "chore"} -> "task"
          [] t \in {"story", "user story"} -> "story"
          [] t = "epic" -> "epic"
          [] OTHER -> "task"

\* ParseResult; NoEstimate is estimate=None
NoEstimate == -1000

ParseResult(title, description, priority, estimate, task_type, confidence, raw_text) ==
    [title |-> title, description |-> description, priority |-> priority,
     estimate |-> estimate, task_type |-> task_type,
     confidence_score |-> confidence, raw_text |-> raw_text]

(* --------------------- parser/mock_parser.py --------------------------- *)
HasWord(text, words) == \E i \in DOMAIN text : LowerStrip(text[i]) \in words

IsNumber(token) == token \in {"0", "1", "3", "8", "50"}

ToInt(token) ==
    CASE token = "0" -> 0 [] token = "1" -> 1 [] token = "3" -> 3
      [] token = "8" -> 8 [] OTHER -> 50

\* re.search(r"(\d+)\s*unit", text_lower): the numbers followed by one of
\* the units, at most one blank between them, leftmost first
Matches(text, units) ==
    { i \in DOMAIN text :
        /\ IsNumber(text[i])
        /\ \/ i + 1 <= Len(text) /\ LowerStrip(text[i + 1]) \in units
           \/ i + 2 <= Len(text) /\ Blank(text[i + 1])
                                 /\ LowerStrip(text[i + 2]) \in units }

FirstMatch(text, units) ==
    ToInt(text[CHOOSE i \in Matches(text, units) :
                  \A j \in Matches(text, units) : i <= j])

\* MockTaskParser._extract_estimate
extract_estimate(text) ==
    IF Matches(text, {"hours", "hour", "hrs", "hr", "h"}) # {}
    THEN LET hours == FirstMatch(text, {"hours", "hour", "hrs", "hr", "h"})
         IN  IF hours <= 2 THEN 1
             ELSE IF hours <= 6 THEN 2
             ELSE IF hours <= 16 THEN 3
             ELSE IF hours <= 40 THEN 5
             ELSE 8
    ELSE IF Matches(text, {"days", "day", "d"}) # {}
    THEN Min(FirstMatch(text, {"days", "day", "d"}) * 3, MaxStoryPoints)
    ELSE IF Matches(text, {"points", "point", "sp"}) # {}
    THEN Min(FirstMatch(text, {"points", "point", "sp"}), MaxStoryPoints)
    ELSE NoEstimate

\* MockTaskParser._extract_priority
extract_priority(text) ==
    IF HasWord(text, {"urgent", "critical", "asap", "emergency", "blocker"}) THEN "urgent"
    ELSE IF HasWord(text, {"important", "major"}) THEN "high"
    ELSE IF HasWord(text, {"minor", "trivial"}) THEN "low"
    ELSE "medium"

\* MockTaskParser._extract_task_type
extract_task_type(text) ==
    IF HasWord(text, {"bug", "issue", "error", "broken", "fix", "defect"}) THEN "bug"
    ELSE IF HasWord(text, {"feature", "add", "new", "implement", "create", "build"})
    THEN "feature"
    ELSE IF HasWord(text, {"story"}) THEN "story"
    ELSE "task"

\* re.split(r"[.!?]", text)[0]
RECURSIVE FirstSentence(_)
FirstSentence(text) ==
    IF text = <<>> \/ Head(text) \in {".", "!", "?"} THEN <<>>
    ELSE <<Head(text)>> \o FirstSentence(Tail(text))

\* re.sub(r"\s+", " ", title)
RECURSIVE NormalizeWhitespace(_)
NormalizeWhitespace(text) ==
    IF text = <<>> THEN <<>>
    ELSE IF Blank(Head(text))
    THEN IF Tail(text) # <<>> /\ Blank(Head(Tail(text)))
         THEN NormalizeWhitespace(Tail(text))
         ELSE <<" ">> \o NormalizeWhitespace(Tail(text))
    ELSE <<Head(text)>> \o NormalizeWhitespace(Tail(text))

\* MockTaskParser._extract_title
extract_title(text) ==
    LET first_sentence == StripText(FirstSentence(StripText(text)))
        cut == IF TextLen(first_sentence) > MaxTitleLen
               THEN Truncate(first_sentence, MaxTitleLen - 3) \o <<"...">>
               ELSE first_sentence
        title == StripText(NormalizeWhitespace(cut))
    IN  IF TextLen(title) = 0 THEN <<"New Task">> ELSE title

StartsWith(text, prefix) ==
    Len(prefix) <= Len(text) /\ SubSeq(text, 1, Len(prefix)) = prefix

\* MockTaskParser._generate_description
generate_description(text, title) ==
    IF StripText(text) = StripText(title) \/ TextLen(text) <= TextLen(title) + 10
    THEN <<"Task to ">> \o Lower(text)
    ELSE IF TextLen(text) <= 200
    THEN IF StartsWith(Lower(text), Lower(title))
         THEN LET rest == StripText(SubSeq(text, Len(title) + 1, Len(text)))
                  remaining == IF rest # <<>> /\ Head(rest) \in {".", ",", ":", ";"}
                               THEN StripText(Tail(rest)) ELSE rest
              IN  IF remaining # <<>> THEN remaining
                  ELSE <<"Task to ">> \o Lower(title)
         ELSE text
    ELSE <<"Details:", "\n">> \o text

\* MockTaskParser._calculate_confidence
calculate_confidence(text) ==
    Min(50 + (IF 20 <= TextLen(text) /\ TextLen(text) <= 500 THEN 20 ELSE 0)
           + (IF \E i \in DOMAIN text : text[i] \in {".", "!", "?"} THEN 10 ELSE 0)
           + (IF HasWord(text, {"fix", "add", "create", "implement", "update",
                                "remove", "build"}) THEN 10 ELSE 0)
           + (IF HasWord(text, {"urgent", "high", "low", "priority"}) THEN 10 ELSE 0),
        MaxConfidence)

\* MockTaskParser.parse_text after _validate_text
MockParse(text) ==
    ParseResult(extract_title(text), generate_description(text, extract_title(text)),
                extract_priority(text), extract_estimate(text),
                extract_task_type(text), calculate_confidence(text), text)

(* --------------------- parser/openai_parser.py ------------------------- *)
\* a JSON value of the hosted model's answer that should be a number
Number(v) == [kind |-> "number", value |-> v]

NotANumber == [kind |-> "text", value |-> 0]

Null == [kind |-> "null", value |-> 0]

\* the hosted model's answers to a parsing prompt, or what goes wrong
ParserPayload(title, description, priority, estimate, task_type, confidence) ==
    [fault |-> "none", title |-> title, description |-> description,
     priority |-> priority, estimate |-> estimate, task_type |-> task_type,
     confidence_score |-> confidence]

ParserPayloads ==
    { ParserPayload(<<"Fix", " ", "login">>, <<"Users cannot log in">>, "High",
                    Number(5), "Bug", Number(90)),
      ParserPayload(<<" ">>, <<>>, " URGENT ", Number(0), "user story", Number(150)),
      ParserPayload(<<"Ship">>, <<" ">>, "p1", Number(40), "spike", Number(-50)),
      ParserPayload(<<"Ship">>, <<"it">>, "blocker", Number(-3), "epic", NotANumber),
      ParserPayload(<<"Ship">>, <<"it">>, "", NotANumber, "", Null),
      ParserPayload(<<"Ship">>, <<"it">>, "minor", Null, "chore", Number(0)) } \cup
    { [ParserPayload(<<>>, <<>>, "", Null, "", Null) EXCEPT !.fault = f] :
        f \in {"empty", "invalid_json", "missing_field", "exception"} }

\* OpenAITaskParser._build_parse_result
build_parse_result(original_text, parsed_data) ==
    ParseResult(
        Truncate(parsed_data.title, MaxTitleLen),
        parsed_data.description,
        normalize_priority(parsed_data.priority),
        IF parsed_data.estimate.kind = "number"
        THEN Max(MinStoryPoints, Min(parsed_data.estimate.value, MaxStoryPoints))
        ELSE NoEstimate,
        normalize_task_type(parsed_data.task_type),
        IF parsed_data.confidence_score.kind = "number"
        THEN Max(0, Min(parsed_data.confidence_score.value, MaxConfidence))
        ELSE 0,
        original_text)

\* OpenAITaskParser.parse_text after _validate_text
OpenAIParse(text, answer) ==
    CASE answer.fault = "empty" ->
           Raises("ParserError", <<"OpenAI returned empty response">>)
      [] answer.fault = "invalid_json" ->
           Raises("ParserError", <<"Invalid JSON response from AI: ", "Expecting value">>)
      [] answer.fault = "missing_field" ->
           Raises("ParserError", <<"AI response missing required field: ", "priority">>)
      [] answer.fault = "exception" ->
           Raises("ParserError", <<"OpenAI parsing error: ", "timeout">>)
      [] OTHER -> Returned(build_parse_result(text, answer))

(* ------------------ parser/service.py: the parser service -------------- *)
MaxParseCalls == 2

\* a TaskParser passed to TaskParserService(parser=...): the ParseResults
\* its parse_text hands back for a text
CustomParseResults(text) ==
    { ParseResult(<<"Ship">>, <<"it">>, "HIGH", 5, "Bug", 50, text),
      ParseResult(<<>>, <<" ">>, "p1", NoEstimate, "spike", 50, text),
      ParseResult(<<" ">>, <<>>, "low", 3, "epic", 0, <<>>) }

\* the texts passed to the parser service
ParserTexts ==
    { <<"Fix", " ", "login", ".", " ", "urgent">>,
      <<"do", " ", "it", " ", "in", " ", "0", " ", "days">>,
      <<"add", " ", "api", " ", "8", " ", "days", " ", "important">>,
      <<"takes", " ", "50", " ", "hours">>,
      <<"0", "sp", " ", "minor", " ", "story">>,
      <<"?", "!", "?", "!", "?">>,
      <<"hi">>,
      <<" ", " ">>,
      <<>> }

\* TaskParserService._validate_parsing_request: the errors
validate_parsing_request(text) ==
    (IF TextLen(StripText(text)) = 0 THEN <<"Text cannot be empty">> ELSE <<>>) \o
    (IF text # <<>> /\ TextLen(StripText(text)) < MinParseLen
     THEN <<"Text too short - please provide more details">> ELSE <<>>) \o
    (IF TextLen(text) > MaxTextLen
     THEN <<"Text too long - please keep under 2000 characters">> ELSE <<>>)

enhance_parse_result_keep_priority(result) ==
    [result EXCEPT
        !.title = IF TextLen(StripText(@)) = 0 THEN <<"New Task">> ELSE @,
        !.description =
            IF TextLen(StripText(@)) = 0
            THEN (IF TextLen(result.raw_text) > 0 THEN result.raw_text
                  ELSE <<"No description provided">>)
            ELSE @,
        !.task_type = IF @ \notin {"task", "bug", "feature", "story", "epic"}
                      THEN "task" ELSE @]

\* TaskParserService._enhance_parse_result
enhance_parse_result(result) ==
    [result EXCEPT
        !.title = IF TextLen(StripText(@)) = 0 THEN <<"New Task">> ELSE @,
        !.description =
            IF TextLen(StripText(@)) = 0
            THEN (IF TextLen(result.raw_text) > 0 THEN result.raw_text
                  ELSE <<"No description provided">>)
            ELSE @,
        !.priority = IF @ \notin {"low", "medium", "high", "urgent"}
                     THEN "medium" ELSE @,
        !.task_type = IF @ \notin {"task", "bug", "feature", "story", "epic"}
                      THEN "task" ELSE @]

\* self.parser.parse_text(text)
ParserOutcome(text, parser, answer) ==
    IF parser \in {"openai", "mock"} /\ validate_text(text) # <<>>
    THEN Raises("ParserError", validate_text(text))
    ELSE CASE parser = "openai" -> OpenAIParse(text, answer)
           [] parser = "mock" -> Returned(MockParse(text))
           [] OTHER -> Returned(answer)

\* TaskParserService.parse_text_to_task_data
parse_text_to_task_data(text, parser, answer) ==
    IF validate_parsing_request(text) # <<>>
    THEN Raises("ParserError",
                <<"Validation failed: ">> \o JoinErrors(validate_parsing_request(text)))
    ELSE LET o == ParserOutcome(text, parser, answer)
         IN  IF o.kind = "returned" THEN Returned(enhance_parse_result(o.result)) ELSE o

\* a caller runs parser_service.parse_text_to_task_data(text)
ParseTextCall(text, parser, answer) ==
    /\ resp.n < MaxParseCalls
    /\ LET o == parse_text_to_task_data(text, parser, answer)
       IN  resp' = RespRecord(resp.n + 1, "parse_text_to_task_data",
                              [text |-> text, parser |-> parser, answer |-> answer],
                              o.kind, IF o.kind = "returned" THEN o.result ELSE o.error)
    /\ UNCHANGED <<tasks, nextTask, acts, nextAct, now, sums, nextSum, svc,
                   call, conn, out, last, est, rng>>

ParseNext ==
    \/ \E text \in ParserTexts : ParseTextCall(text, "mock", <<>>)
    \/ \E text \in ParserTexts, answer \in ParserPayloads :
          ParseTextCall(text, "openai", answer)
    \/ \E text \in ParserTexts :
          \E answer \in CustomParseResults(text) : ParseTextCall(text, "custom", answer)

SpecParse == Init /\ [][ParseNext]_vars

(* ----------------------- api.py: synchronous views --------------------- *)
MaxApiTasks == 2

MaxApiCalls == 2

HTTP_200_OK == 200

HTTP_400_BAD_REQUEST == 400

HTTP_404_NOT_FOUND == 404

HTTP_500_INTERNAL_SERVER_ERROR == 500

\* Response(body, status): the body is kept as its message or error text
Response(status, body) == [status |-> status, body |-> body]

\* what a view call was given: the task id, whether the task was stored
\* when the call began, and what went wrong on the way ("none",
\* "validation", "estimation" or "other")
ViewArg(pk, failure) == [pk |-> pk, existed |-> pk \in DOMAIN tasks, failure |-> failure]

\* TaskEstimationView.get without the readiness check
estimation_view_unchecked(T, pk, estimator, answer) ==
    { CASE o.kind = "returned" ->
             [failure |-> "none", o |-> o, response |-> Response(HTTP_200_OK, <<>>)]
        [] o.kind = "DoesNotExist" ->
             [failure |-> "none", o |-> o,
              response |-> Response(HTTP_404_NOT_FOUND, <<"Task not found">>)]
        [] OTHER ->
             [failure |-> "estimation", o |-> o,
              response |-> Response(HTTP_400_BAD_REQUEST, <<"Estimation failed">>)] :
        o \in estimate_task(T, pk, estimator, answer) }

\* TaskEstimationView.get: the service built by the factory (estimator
\* "ai" or "mock"), can_estimate, then estimate_task
estimation_view(T, pk, estimator, answer) ==
    IF ~can_estimate(T, pk)
    THEN { [failure |-> "validation", o |-> ServiceOutcome(Raises("none", <<>>), FALSE),
            response |-> Response(HTTP_400_BAD_REQUEST, <<"Task cannot be estimated">>)] }
    ELSE estimation_view_unchecked(T, pk, estimator, answer)

TaskEstimationViewGet(pk, estimator, answer) ==
    /\ resp.n < MaxApiCalls
    /\ \E v \in estimation_view(tasks, pk, estimator, answer) :
          /\ resp' = RespRecord(resp.n + 1, "estimate-task", ViewArg(pk, v.failure),
                                "response", v.response)
          /\ rng' = IF estimator = "mock" /\ v.o.invoked
                    THEN RngAfterMock(v.o.result.similar_tasks, pk)
                    ELSE rng
    /\ UNCHANGED <<tasks, nextTask, acts, nextAct, now, sums, nextSum, svc,
                   call, conn, out, last, est>>

\* TaskSummaryView.get; fault: reading task.ai_summary raises
TaskSummaryViewGet(pk, fault) ==
    /\ resp.n < MaxApiCalls
    /\ resp' =
         RespRecord(resp.n + 1, "get-summary",
                    ViewArg(pk, IF pk \in DOMAIN tasks /\ fault THEN "other" ELSE "none"),
                    "response",
                    IF pk \notin DOMAIN tasks
                    THEN Response(HTTP_404_NOT_FOUND, <<"Task not found">>)
                    ELSE IF fault
                    THEN Response(HTTP_500_INTERNAL_SERVER_ERROR,
                                  <<"Failed to retrieve summary: ">>)
                    ELSE IF get_by_task_id(tasks, sums, pk) # {}
                    THEN Response(HTTP_200_OK, <<>>)
                    ELSE Response(HTTP_404_NOT_FOUND,
                                  <<"No summary available for this task">>))
    /\ UNCHANGED <<tasks, nextTask, acts, nextAct, now, sums, nextSum, svc,
                   call, conn, out, last, est, rng>>

\* TaskSummaryView.delete; fault: TaskSummaryService() or delete_summary
\* raises
TaskSummaryViewDelete(pk, fault) ==
    /\ resp.n < MaxApiCalls
    /\ resp' =
         RespRecord(resp.n + 1, "delete-summary",
                    ViewArg(pk, IF pk \in DOMAIN tasks /\ fault THEN "other" ELSE "none"),
                    "response",
                    IF pk \notin DOMAIN tasks
                    THEN Response(HTTP_404_NOT_FOUND, <<"Task not found">>)
                    ELSE IF fault
                    THEN Response(HTTP_500_INTERNAL_SERVER_ERROR,
                                  <<"Failed to delete summary: ">>)
                    ELSE IF get_by_task_id(tasks, sums, pk) # {}
                    THEN Response(HTTP_200_OK, <<"Summary deleted successfully">>)
                    ELSE Response(HTTP_404_NOT_FOUND, <<"No summary found to delete">>))
    /\ sums' = IF pk \in DOMAIN tasks /\ ~fault THEN DeleteByTaskId(tasks, sums, pk)
               ELSE sums
    /\ UNCHANGED <<tasks, nextTask, acts, nextAct, now, nextSum, svc,
                   call, conn, out, last, est, rng>>

\* TaskSummaryGenerateView.post: whatever create_or_update_summary raises
\* (the provider's failure, the store's) is answered with 500
TaskSummaryGenerateViewPost(pk) ==
    /\ resp.n < MaxApiCalls
    /\ \E q \in ActivitiesRead(tasks, acts, sums, pk), prov \in ProvOutcomes :
          LET o == CreateOrUpdate(tasks, acts, sums, nextSum, pk, q, prov)
          IN  /\ sums' = o.sums
              /\ nextSum' = o.nextSum
              /\ resp' =
                   RespRecord(resp.n + 1, "generate-summary",
                              ViewArg(pk, IF pk \in DOMAIN tasks /\ Raised(o.kind)
                                          THEN "other" ELSE "none"),
                              "response",
                              IF pk \notin DOMAIN tasks
                              THEN Response(HTTP_404_NOT_FOUND, <<"Task not found">>)
                              ELSE IF Raised(o.kind)
                              THEN Response(HTTP_500_INTERNAL_SERVER_ERROR,
                                            <<"Failed to generate summary: ">>)
                              ELSE Response(HTTP_200_OK,
                                            <<"Summary generated successfully">>))
    /\ UNCHANGED <<tasks, nextTask, acts, nextAct, now, svc,
                   call, conn, out, last, est, rng>>

\* the four views over a store that changes
\* a task that can be estimated, one with a blank title and one without a
\* description
ApiTaskSamples ==
    {r \in EstTaskSamples : r.status \in {"todo", "done", "closed"} /\ r.estimate # 0}

ApiNext ==
    \/ \E row \in ApiTaskSamples : BulkCreateTask(row, MaxApiTasks)
    \/ \E t \in 1..MaxApiTasks : AddActivity(t)
    \/ \E pk \in 0..MaxApiTasks, answer \in AIPayloads :
          TaskEstimationViewGet(pk, "ai", answer)
    \/ \E pk \in 0..MaxApiTasks : TaskEstimationViewGet(pk, "mock", <<>>)
    \/ \E pk \in 0..MaxApiTasks, fault \in BOOLEAN : TaskSummaryViewGet(pk, fault)
    \/ \E pk \in 0..MaxApiTasks, fault \in BOOLEAN : TaskSummaryViewDelete(pk, fault)
    \/ \E pk \in 0..MaxApiTasks : TaskSummaryGenerateViewPost(pk)

SpecApi == Init /\ [][ApiNext]_vars

(* ------------- services: configurations and provider factories --------- *)
MaxFactoryCalls == 2

Capabilities == {"summary", "estimation", "parser"}

\* settings.OPENAI_API_KEY: unset (None), empty, or a key
NoKey == "<None>"

ApiKeys == {NoKey, "", "sk-1"}

\* not api_key
Falsy(api_key) == api_key \in {NoKey, ""}

\* an override that is ignored
from_settings_no_override(api_key, USE_MOCK_AI) ==
    [api_key |-> api_key, use_mock |-> Falsy(api_key)]

\* AIConfig.from_settings / EstimationConfig.from_settings
from_settings(api_key, USE_MOCK_AI) ==
    [api_key |-> api_key, use_mock |-> Falsy(api_key) \/ USE_MOCK_AI]

MockOf(capability) ==
    CASE capability = "summary" -> "MockSummaryProvider"
      [] capability = "estimation" -> "MockAISimilarityEstimator"
      [] OTHER -> "MockTaskParser"

RealOf(capability) ==
    CASE capability = "summary" -> "OpenAISummaryProvider"
      [] capability = "estimation" -> "AISimilarityEstimator"
      [] OTHER -> "OpenAITaskParser"

\* what the real implementation's _setup raises
SetupErrorOf(capability) ==
    CASE capability = "summary" -> "SummaryError"
      [] capability = "estimation" -> "EstimationConfigurationError"
      [] OTHER -> "ParserError"

ConfigurationErrorOf(capability) ==
    CASE capability = "summary" -> "SummaryConfigurationError"
      [] capability = "estimation" -> "EstimationConfigurationError"
      [] OTHER -> "ParserConfigurationError"

\* OpenAISummaryProvider / AISimilarityEstimator / OpenAITaskParser: the
\* constructor runs _setup; clientFault: OpenAI(api_key=...) raises
RealSetup(capability, config, clientFault) ==
    IF Falsy(config.api_key)
    THEN Raises(SetupErrorOf(capability), <<"OpenAI API key is required">>)
    ELSE IF clientFault
    THEN Raises(SetupErrorOf(capability), <<"Failed to initialize OpenAI client: ">>)
    ELSE Returned(RealOf(capability))

\* SummaryProviderFactory.create_provider, EstimatorFactory.create_estimator
\* and TaskParserFactory.create_parser: any exception of the constructor is
\* raised again as the capability's configuration error
create_provider(capability, config, clientFault) ==
    IF config.use_mock THEN Returned(MockOf(capability))
    ELSE LET o == RealSetup(capability, config, clientFault)
         IN  IF o.kind = "returned" THEN o
             ELSE Raises(ConfigurationErrorOf(capability),
                         <<"Failed to create: ">> \o o.error)

\* a caller runs the factory of a capability, with config=None (the
\* configuration is read from the settings) or with a configuration
CreateProviderCall(capability, source, api_key, flag, clientFault) ==
    /\ resp.n < MaxFactoryCalls
    /\ LET config == IF source = "settings" THEN from_settings(api_key, flag)
                     ELSE [api_key |-> api_key, use_mock |-> flag]
           o == create_provider(capability, config, clientFault)
       IN  resp' = RespRecord(resp.n + 1, "create_provider",
                              [capability |-> capability, source |-> source,
                               api_key |-> api_key, flag |-> flag,
                               clientFault |-> clientFault],
                              o.kind, IF o.kind = "returned" THEN o.result ELSE o.error)
    /\ UNCHANGED <<tasks, nextTask, acts, nextAct, now, sums, nextSum, svc,
                   call, conn, out, last, est, rng>>

FactoryNext ==
    \E capability \in Capabilities, source \in {"settings", "config"},
       api_key \in ApiKeys, flag \in BOOLEAN, clientFault \in BOOLEAN :
        CreateProviderCall(capability, source, api_key, flag, clientFault)

SpecFactory == Init /\ [][FactoryNext]_vars

(* ------------- base.py: the progress tracker called directly ----------- *)
MaxTrackCalls == 6

\* the step lists a caller may declare
StepLists == {StepsOf(kind) : kind \in Kinds} \cup {<<>>}

\* a caller runs consumer.set_operation_steps(steps)
SetOperationStepsCall(c, steps) ==
    /\ conn[c].kind \in Kinds
    /\ resp.n < MaxTrackCalls
    /\ conn' = [conn EXCEPT ![c] = set_operation_steps(conn[c], steps)]
    /\ out' = [out EXCEPT ![c] = <<>>]
    /\ resp' = RespRecord(resp.n + 1, "set_operation_steps", [c |-> c, steps |-> steps],
                          "returned", <<>>)
    /\ UNCHANGED <<tasks, nextTask, acts, nextAct, now, sums, nextSum, svc,
                   call, last, est, rng>>

\* a caller runs consumer.progress_to_next_step(); out holds the events
\* the call sent
ProgressToNextStepCall(c) ==
    /\ conn[c].kind \in Kinds
    /\ resp.n < MaxTrackCalls
    /\ LET x == progress_to_next_step([cn |-> conn[c], ev |-> <<>>])
       IN  /\ conn' = [conn EXCEPT ![c] = x.cn]
           /\ out' = [out EXCEPT ![c] = x.ev]
           /\ resp' = RespRecord(resp.n + 1, "progress_to_next_step", [c |-> c],
                                 "returned", x.ev)
    /\ UNCHANGED <<tasks, nextTask, acts, nextAct, now, sums, nextSum, svc,
                   call, last, est, rng>>

TrackNext ==
    \/ \E c \in WsConns, kind \in Kinds : Connect(c, kind, 0, "anon")
    \/ \E c \in WsConns, steps \in StepLists : SetOperationStepsCall(c, steps)
    \/ \E c \in WsConns : ProgressToNextStepCall(c)

SpecTrack == Init /\ [][TrackNext]_vars

(* ======================= properties of the streaming protocol =========== *)
ProgressCount(ev) == Cardinality({i \in DOMAIN ev : ev[i].type = "progress"})

\* the progress events of the first k declared steps, in declared order
DeclaredProgress(steps, k) ==
    [i \in 1..k |-> ProgressEvent(steps[i].message, steps[i].progress, steps[i].name)]

\* the position of the declared step named unit
StepIndex(steps, unit) == CHOOSE i \in DOMAIN steps : steps[i].name = unit

ContainsNotFound(message) == \E i \in DOMAIN message : message[i] = " not found"

\* C1: a successful run of any of the four operations, the first or a later
\* one on its connection, sends exactly the N declared progress events in
\* declared order, then the progress event (100, "complete"), then one
\* success event, and nothing else.
C1_SuccessSequence ==
    \A c \in Conns :
        last[c].path = "ok" =>
            LET steps == StepsOf(conn[c].kind)
                N == Len(steps)
            IN  /\ Len(out[c]) = N + 2
                /\ SubSeq(out[c], 1, N) = DeclaredProgress(steps, N)
                /\ out[c][N + 1] = ProgressEvent(<<"Operation completed!">>, 100, "complete")
                /\ out[c][N + 2].type = "success"

\* a second message on the same connection completed, after a first one
\* had moved the step cursor
C1_Witness ==
    \E c \in Conns :
        /\ last[c].path = "ok"
        /\ last[c].n = 2
        /\ conn[c].current_step = Len(StepsOf(conn[c].kind))

\* C2: an operation whose work fails in the unit that belongs to declared
\* step k has sent exactly the first k progress events, then one error
\* event, and no success event.
C2_FailAtStepK ==
    \A c \in Conns :
        last[c].path = "failed" =>
            LET steps == StepsOf(conn[c].kind)
                k == StepIndex(steps, last[c].unit)
            IN  /\ Len(out[c]) = k + 1
                /\ SubSeq(out[c], 1, k) = DeclaredProgress(steps, k)
                /\ out[c][k + 1].type = "error"

\* C3: every inbound message handled by a consumer gets exactly one terminal
\* event (success or error), which is the last event sent for it: every
\* event before it is a progress event.
C3_OneTerminalEvent ==
    \A c \in Conns :
        last[c].n >= 1 =>
            /\ Len(out[c]) >= 1
            /\ out[c][Len(out[c])].type \in {"success", "error"}
            /\ \A i \in 1..(Len(out[c]) - 1) : out[c][i].type = "progress"

\* a handler failed after progress events, on the second message of a
\* connection
C3_Witness ==
    \E c \in Conns :
        /\ last[c].path = "failed"
        /\ last[c].n = 2
        /\ Len(out[c]) > 1

\* the message asked for the connection's own action
OwnAction(c) == last[c].n >= 1 /\ last[c].action = conn[c].kind

\* C4: on an estimation or summary connection, whatever the task id of the
\* address and whichever message of the connection it is, an operation on a
\* task that does not exist ends with exactly one "not found" error event
\* and sends no progress event.
C4_NotFoundBeforeProgress ==
    \A c \in Conns :
        (TaskScoped(conn[c].kind) /\ OwnAction(c) /\ ~last[c].existed) =>
            /\ Len(out[c]) = 1
            /\ out[c][1].type = "error"
            /\ ContainsNotFound(out[c][1].message)

Succeeded(kind) == kind \in {"created_basic", "created_ai", "updated", "noop"}

TheOne(S) == CHOOSE x \in S : TRUE

Timestamp(id) == ActById(acts, id).timestamp

\* the activities of the last call's task that were new to the summary the
\* call found: later than its mark, or all of them when it had no mark
NewFor(seen, before) ==
    IF before = {} \/ TheOne(before).last_activity_processed = None THEN seen
    ELSE {id \in seen :
            Timestamp(id) > Timestamp(TheOne(before).last_activity_processed)}

\* given lists exactly the ids of S, oldest first
Chronological(given, S) ==
    /\ Len(given) = Cardinality(S)
    /\ {given[i] : i \in DOMAIN given} = S
    /\ \A i, j \in DOMAIN given : i < j => Timestamp(given[i]) <= Timestamp(given[j])

\* C6: a create_or_update_summary call that directly follows a successful
\* one on the same task, with no activity added in between, calls no
\* provider, writes nothing and returns the summary the first call returned
\* (same text, mark and cost counter).
C6_SecondCallNoop ==
    [][ ( /\ svc'.n = svc.n + 1
          /\ svc.op = "create_or_update" /\ svc'.op = "create_or_update"
          /\ svc'.task = svc.task
          /\ Succeeded(svc.kind)
          /\ svc'.seen = svc.seen )
        => ( /\ svc'.kind = "noop"
             /\ ~svc'.called
             /\ svc'.after = svc.after
             /\ sums' = sums ) ]_vars

\* a call found a summary that already carried a mark and a cost, and
\* returned it untouched
C6_Witness ==
    /\ svc.kind = "noop"
    /\ svc.after = svc.before
    /\ \E s \in svc.after : s.last_activity_processed # None /\ s.token_usage > 0

\* C7: from one state to the next, the cost counter of a stored summary
\* never decreases (callers one at a time, provider costs >= 0).
C7_CostMonotone ==
    [][ \A s \in sums : \A s2 \in sums' :
            s2.id = s.id => s2.token_usage >= s.token_usage ]_vars

\* an update added a positive cost to a counter that was already positive
C7_Witness ==
    /\ svc.kind = "updated"
    /\ svc.cost > 0
    /\ TheOne(svc.before).token_usage > 0
    /\ TheOne(svc.after) \in sums

\* C8: a call for a task without summary and without activities calls no
\* provider and creates a summary whose text holds the task's title and
\* status text, whose cost counter is 0 and whose mark is unset.
C8_BasicSummary ==
    ( /\ svc.op = "create_or_update"
      /\ svc.kind # "not_found"
      /\ svc.before = {}
      /\ svc.seen = {} )
    => ( /\ svc.kind = "created_basic"
         /\ ~svc.called
         /\ Cardinality(svc.after) = 1
         /\ LET s == TheOne(svc.after)
                text == s.summary_text
            IN  /\ s.task = svc.task
                /\ s.token_usage = 0
                /\ s.last_activity_processed = None
                /\ \E i \in DOMAIN text : text[i] = tasks[svc.task].title
                /\ \E i \in DOMAIN text :
                      text[i] = <<get_status_display(tasks[svc.task].status)>> )

C8_Witness ==
    /\ svc.kind = "created_basic"
    /\ svc.seen = {}
    /\ tasks[svc.task].status = "done"
    /\ svc.after \subseteq sums

\* C9: a call that finds a summary and new activities (later than the mark,
\* or all when there is no mark), and whose provider call returns, gave the
\* provider exactly those activities oldest first and the previous text;
\* the stored text is the provider's, the mark is the last activity given,
\* the counter is the previous counter plus the returned cost. A call that
\* finds no summary but activities creates the summary with the mark on the
\* last activity of the batch and the counter equal to the returned cost.
C9_DeltaUpdate ==
    LET new == NewFor(svc.seen, svc.before)
        b == TheOne(svc.before)
        a == TheOne(svc.after)
    IN  /\ ( /\ svc.op = "create_or_update"
             /\ svc.kind \notin {"not_found", "provider_error"}
             /\ new # {} )
           => svc.kind = IF svc.before # {} THEN "updated" ELSE "created_ai"
        /\ svc.kind \in {"updated", "created_ai"}
           => /\ svc.called
              /\ Chronological(svc.given, new)
              /\ Cardinality(svc.after) = 1
              /\ a.summary_text \in ProviderTexts
              /\ a.last_activity_processed = svc.given[Len(svc.given)]
              /\ a.task = svc.task
        /\ svc.kind = "updated"
           => /\ svc.prev = b.summary_text
              /\ a.token_usage = b.token_usage + svc.cost
              /\ a.id = b.id
        /\ svc.kind = "created_ai"
           => /\ svc.before = {}
              /\ a.token_usage = svc.cost

\* an update whose delta left out an activity the summary had already seen
C9_Witness ==
    /\ svc.kind = "updated"
    /\ svc.cost > 0
    /\ Len(svc.given) < Cardinality(svc.seen)
    /\ TheOne(svc.before).token_usage > 0

\* C10: the store never holds two summaries of one task, and an update
\* keeps the identity of the summary it found, also when two callers run
\* their first summarization of one task at the same time.
C10_OneSummaryPerTask ==
    /\ \A s1, s2 \in sums : s1.task = s2.task => s1 = s2
    /\ svc.kind = "updated" => TheOne(svc.after).id = TheOne(svc.before).id

\* two callers found no summary for the same task; one has created it and
\* the other's create was refused by the unique constraint
C10_Witness ==
    /\ svc.kind = "integrity_error"
    /\ svc.before = {}
    /\ \E s \in sums : s.task = svc.task

\* C11: the mark of every stored summary is unset or is an activity of the
\* summary's own task.
C11_MarkBelongsToTask ==
    \A s \in sums :
        s.last_activity_processed # None =>
            \E a \in acts : a.id = s.last_activity_processed /\ a.task = s.task

\* a summary carries a mark while another task has activities too
C11_Witness ==
    \E s \in sums :
        /\ s.last_activity_processed # None
        /\ \E a \in acts : a.task # s.task
        /\ svc.kind = "updated"

(* ================= properties of interleaved summary calls ============== *)
\* caller c holds a provider result for the summary it read, and the last
\* completed call has updated that same summary meanwhile: both read it
\* before either wrote
RaceHalf(c) ==
    /\ call[c].pc = "write"
    /\ call[c].existing # {}
    /\ svc.kind = "updated"
    /\ svc.task = call[c].task
    /\ svc.before = call[c].existing

\* the stored summary after callers c then d, who both hold the summary s0
\* they read, have written
AfterWrites(c, d) ==
    LET s0 == TheOne(call[c].existing)
        o1 == UpdateExistingSummary(sums, nextSum, s0, call[c].q, call[c].prov)
        o2 == UpdateExistingSummary(o1.sums, o1.nextSum, s0, call[d].q, call[d].prov)
    IN  TheOne({s \in o2.sums : s.id = s0.id})

\* C12 as stated: when two callers hold the same existing summary and a
\* provider result of positive cost each, the stored text ends up as the
\* last writer's, and there is an order of the two writes that leaves the
\* counter below, and an order that leaves it above, the counter read plus
\* both costs.
C12_UnderOrDoubleCount ==
    \A c, d \in Conns :
        ( /\ c # d
          /\ call[c].pc = "write" /\ call[d].pc = "write"
          /\ call[c].existing # {} /\ call[c].existing = call[d].existing
          /\ call[c].existing = get_by_task_id(tasks, sums, call[c].task)
          /\ call[c].prov.cost > 0 /\ call[d].prov.cost > 0 )
        => LET s0 == TheOne(call[c].existing)
               expected == s0.token_usage + call[c].prov.cost + call[d].prov.cost
               finals == {AfterWrites(c, d), AfterWrites(d, c)}
           IN  /\ AfterWrites(c, d).summary_text = call[d].prov.text
               /\ \E f \in finals : f.token_usage < expected
               /\ \E f \in finals : f.token_usage > expected

\* C12 amended: when two callers have read the same existing summary and
\* one has written, the write of the other stores its own text and mark (last
\* write wins) and the counter it read plus its own cost: the first writer's
\* cost is lost (under-count when it was positive), and the counter never
\* exceeds the counter read plus both costs.
C12_LastWriterWins ==
    [][ \A c \in Conns :
            (RaceHalf(c) /\ call'[c].pc = "idle") =>
                LET k == call[c]
                    s0 == TheOne(k.existing)
                    expected == s0.token_usage + svc.cost + k.prov.cost
                    stored == {s \in sums' : s.task = k.task}
                    row == TheOne(stored)
                IN  /\ Cardinality(stored) = 1
                    /\ row.id = s0.id
                    /\ row.summary_text = k.prov.text
                    /\ row.last_activity_processed = LastId(k.q)
                    /\ row.token_usage = s0.token_usage + k.prov.cost
                    /\ row.token_usage <= expected
                    /\ svc.cost > 0 => row.token_usage < expected ]_vars

\* the second writer of a race has written over the first writer's row: the
\* stored counter is below the counter it replaced plus its own cost
C12_Witness ==
    /\ svc.kind = "updated"
    /\ svc.before # {}
    /\ svc.found # {}
    /\ svc.found # svc.before
    /\ svc.cost > 0
    /\ TheOne(svc.after) \in sums
    /\ TheOne(svc.after).token_usage < TheOne(svc.found).token_usage + svc.cost

(* ==================== properties of the error reports =================== *)
\* the error code a consumer uses for its operation's own error class
OwnCode(kind) ==
    CASE kind = "estimate" -> "estimation_error"
      [] kind = "generate_summary" -> "summary_error"
      [] OTHER -> "parse_error"

\* the fixed messages of the internal_error reports
GenericMessages ==
    { <<"Failed to estimate task">>, <<"Failed to generate summary">>,
      <<"Failed to parse text">>, <<"Failed to create task">> }

ErrorEvents(ev) == {i \in DOMAIN ev : ev[i].type = "error"}

\* C13: an operation that ends on an exception which is not of its own
\* error class sends exactly one error event, with code internal_error and
\* a fixed generic message; the codes estimation_error, summary_error and
\* parse_error are sent only for an exception of the operation's own class.
C13_InternalErrorCatchAll ==
    \A c \in Conns :
        last[c].path = "failed" =>
            LET e == out[c][Len(out[c])]
            IN  /\ Cardinality(ErrorEvents(out[c])) = 1
                /\ e.type = "error"
                /\ last[c].unexpected =>
                      e.code = "internal_error" /\ e.message \in GenericMessages
                /\ ~last[c].unexpected => e.code = OwnCode(conn[c].kind)

\* two exceptions that differ at most in their message text
SameButText(f, g) ==
    f.unit = g.unit /\ f.unexpected = g.unexpected /\ f.wrapped = g.wrapped

\* C14: for every consumer the program can hold and every request text, two
\* runs of its operation in which an unexpected exception is raised at the
\* same place, differing only in the exception's message text, send the
\* same events.
C14_EventsIgnoreExceptionText ==
    \A c \in Conns :
        /\ conn[c].kind = "estimate" =>
              \A f, g \in EstimateFaults :
                  (f.unexpected /\ SameButText(f, g)) =>
                      handle_estimation_request(conn[c], tasks, f).ev =
                      handle_estimation_request(conn[c], tasks, g).ev
        /\ conn[c].kind = "parse" =>
              \A f, g \in ParseFaults, t \in TextSamples :
                  (f.unexpected /\ SameButText(f, g)) =>
                      handle_parse_request(conn[c], strip(t.s), f).ev =
                      handle_parse_request(conn[c], strip(t.s), g).ev
        /\ conn[c].kind = "create" =>
              \A f, g \in CreateFaults, t \in TextSamples :
                  (f.unexpected /\ SameButText(f, g)) =>
                      handle_create_request(conn[c], strip(t.s), f, TRUE, nextTask).ev =
                      handle_create_request(conn[c], strip(t.s), g, TRUE, nextTask).ev

\* the text of the WebSocketError that handle_estimation_request raises
ValidationMessage ==
    <<"Task must have both title and description for accurate estimation">>

\* C15: "estimate" for an existing task whose title or description is blank
\* ends with an error event that carries the validation message, not a
\* generic internal-error message.
C15_ActionableValidationError ==
    \A c \in Conns :
        ( /\ conn[c].kind = "estimate" /\ OwnAction(c)
          /\ last[c].existed
          /\ conn[c].task_id \in DOMAIN tasks
          /\ ~ValidTask(tasks[conn[c].task_id]) )
        => LET e == out[c][Len(out[c])]
           IN  /\ e.type = "error"
               /\ e.message = ValidationMessage
               /\ e.message \notin GenericMessages

(* ================= properties of the estimation service ================ *)
BlankTask(T, t) ==
    t \in DOMAIN T /\ (strip(T[t].title) = <<>> \/ strip(T[t].description) = <<>>)

\* C16: a call on a stored task whose title or description is empty or
\* whitespace-only: can_estimate answers false, estimate_task raises
\* EstimationError and the estimator is not invoked; a call on an id that is
\* not stored: can_estimate answers false (it never raises), estimate_task
\* raises the not-found error itself
C16_BlankOrMissingTask ==
    [][est'.n = est.n + 1 =>
          /\ est'.op = "can_estimate" => est'.kind \in {"true", "false"}
          /\ (est'.op = "can_estimate"
                /\ (BlankTask(tasks, est'.task) \/ est'.task \notin DOMAIN tasks))
             => est'.kind = "false"
          /\ (est'.op = "estimate_task" /\ BlankTask(tasks, est'.task))
             => est'.kind = "EstimationError" /\ ~est'.invoked
          /\ (est'.op = "estimate_task" /\ est'.task \notin DOMAIN tasks)
             => est'.kind = "DoesNotExist" /\ ~est'.invoked]_vars

\* estimate_task was called on a stored task with a title and an empty
\* description, and raised EstimationError before the estimator ran
C16_Witness ==
    /\ est.op = "estimate_task"
    /\ est.task \in DOMAIN tasks
    /\ strip(tasks[est.task].title) # <<>>
    /\ strip(tasks[est.task].description) = <<>>
    /\ est.kind = "EstimationError"
    /\ ~est.invoked

\* the post-conditions of _validate_estimation_result, read on a payload of
\* the hosted model or on a result
ViolatesPostCondition(x) ==
    \/ x.estimated_hours <= 0
    \/ x.confidence_score < 0
    \/ x.confidence_score > MaxConfidence
    \/ TextLen(StripText(x.reasoning)) < MinReasoningLen

\* the payload or result the estimator of the call worked from
GivenAnswer(e) ==
    /\ e.op = "estimate_task"
    /\ e.invoked
    /\ e.estimator \in {"ai", "custom"}
    /\ e.estimator = "ai" => e.answer.fault = "none"

BuiltIn(e) ==
    e.op = "estimate_task" /\ e.kind = "returned" /\ e.estimator \in {"ai", "mock"}

\* C18: a result that estimate_task returns through the hosted-model or the
\* mock estimator has hours between 0.1 and 500 with one decimal, a
\* confidence between 0 and 1, a reasoning that is not empty, and at most 5
\* similar tasks
C18_ResultBounds ==
    BuiltIn(est) =>
        /\ MinHours <= est.result.estimated_hours
        /\ est.result.estimated_hours <= MaxHours
        /\ est.result.estimated_hours % 10 = 0
        /\ 0 <= est.result.confidence_score
        /\ est.result.confidence_score <= MaxConfidence
        /\ TextLen(est.result.reasoning) > 0
        /\ Len(est.result.similar_tasks) <= MaxSimilar

\* the hosted model answered with more than 500 hours for a task that has
\* more than 5 completed tasks to compare with: 500 hours and 5 similar
\* tasks were returned
C18_Witness ==
    /\ BuiltIn(est)
    /\ est.estimator = "ai"
    /\ est.answer.estimated_hours > MaxHours
    /\ est.result.estimated_hours = MaxHours
    /\ est.result.metadata.historical_tasks_count > MaxSimilar
    /\ Len(est.result.similar_tasks) = MaxSimilar

ReturnedIds(q) == {q[k].id : k \in DOMAIN q}

\* C19: get_similar_tasks(task, limit) returns at most limit entries, each
\* a different stored task other than the query task, with an estimate that
\* is set and above 0 and with status done or closed, the later updated
\* first; a task with these properties that is left out was updated no later
\* than the ones returned, and is left out only when limit entries are
\* returned
C19_SimilarTasks ==
    [][(est'.n = est.n + 1 /\ est'.op = "get_similar_tasks") =>
          LET q == est'.result
              limit == est'.answer
          IN  /\ Len(q) <= limit
              /\ \A k \in DOMAIN q :
                    /\ q[k].id \in DOMAIN tasks
                    /\ q[k].id # est'.task
                    /\ q[k].estimate = tasks[q[k].id].estimate
                    /\ q[k].estimate # NullEstimate
                    /\ q[k].estimate > 0
                    /\ q[k].status = tasks[q[k].id].status
                    /\ q[k].status \in {"done", "closed"}
              /\ \A k, l \in DOMAIN q :
                    k < l => /\ q[k].id # q[l].id
                             /\ tasks[q[k].id].updated_at >= tasks[q[l].id].updated_at
              /\ \A i \in SimilarCandidates(tasks, est'.task) \ ReturnedIds(q) :
                    /\ Len(q) = limit
                    /\ \A k \in DOMAIN q :
                          tasks[q[k].id].updated_at >= tasks[i].updated_at]_vars

\* get_similar_tasks(task, 1) returned the later updated of two completed
\* tasks with an estimate
C19_Witness ==
    /\ est.op = "get_similar_tasks"
    /\ est.answer = 1
    /\ Len(est.result) = 1
    /\ \E i \in SimilarCandidates(tasks, est.task) :
          tasks[i].updated_at < tasks[est.result[1].id].updated_at

MockReturned(e) ==
    e.op = "estimate_task" /\ e.estimator = "mock" /\ e.kind = "returned"

\* C20: two calls of estimate_task in a row on the same task through the
\* mock estimator, the store not changed in between, return the same
\* estimated_hours and the same metadata.variance_factor
C20_MockDeterministic ==
    [][(/\ MockReturned(est)
        /\ MockReturned(est')
        /\ est'.n = est.n + 1
        /\ est'.task = est.task
        /\ tasks' = tasks)
       => /\ est'.result.estimated_hours = est.result.estimated_hours
          /\ est'.result.metadata.variance_factor
                = est.result.metadata.variance_factor]_vars

\* the variance factor of a mock result is a function of the task id only
MockVarianceOfId ==
    MockReturned(est) =>
        est.result.metadata.variance_factor = Round1(uniform(seed(est.task), 850, 1150))

(* =================== properties of the parser service ================== *)
ParseReturned(r) == r.op = "parse_text_to_task_data" /\ r.kind = "returned"

\* C21: a ParseResult that parse_text_to_task_data returns has a priority
\* among low, medium, high, urgent and a task type among task, bug, feature,
\* story, epic, whatever the parser produced (a value outside the synonym
\* tables gives medium and task), and a title and a description that are
\* not blank
C21_NormalizedResult ==
    ParseReturned(resp) =>
        /\ resp.result.priority \in {"low", "medium", "high", "urgent"}
        /\ resp.result.task_type \in {"task", "bug", "feature", "story", "epic"}
        /\ TextLen(StripText(resp.result.title)) > 0
        /\ TextLen(StripText(resp.result.description)) > 0
        /\ (resp.arg.parser = "openai" /\ resp.arg.answer.priority = "p1")
              => resp.result.priority = "medium"
        /\ (resp.arg.parser = "openai" /\ resp.arg.answer.task_type = "spike")
              => resp.result.task_type = "task"
        /\ (resp.arg.parser = "custom" /\ resp.arg.answer.priority = "p1")
              => resp.result.priority = "medium"
        /\ (resp.arg.parser = "openai" /\ resp.arg.answer.priority = "High")
              => resp.result.priority = "high"

\* the parser handed back priority "p1", type "spike", an empty title and a
\* blank description, and a result with medium, task, a title and a
\* description was returned
C21_Witness ==
    /\ ParseReturned(resp)
    /\ resp.arg.parser = "custom"
    /\ resp.arg.answer.priority = "p1"
    /\ resp.arg.answer.title = <<>>
    /\ resp.result.priority = "medium"
    /\ resp.result.task_type = "task"
    /\ resp.result.title = <<"New Task">>

\* C22: a ParseResult that parse_text_to_task_data returns through the mock
\* or the hosted-model parser has no estimate or an estimate between 1 and
\* 21, and a confidence between 0 and 1
C22_EstimateAndConfidenceBounds ==
    (ParseReturned(resp) /\ resp.arg.parser \in {"mock", "openai"}) =>
        /\ \/ resp.result.estimate = NoEstimate
           \/ /\ MinStoryPoints <= resp.result.estimate
              /\ resp.result.estimate <= MaxStoryPoints
        /\ 0 <= resp.result.confidence_score
        /\ resp.result.confidence_score <= MaxConfidence

(* ================== properties of the inbound messages ================= *)
\* a frame that is not valid JSON, is not an object, has no action, names
\* an action that is not the consumer's, or (parse, create) has a text that
\* is missing or whitespace-only
Malformed(m, kind) ==
    \/ m.json # "object"
    \/ m.action = ""
    \/ m.action # kind
    \/ kind \in {"parse", "create"} /\ m.text.str /\ strip(m.text.s) = <<>>

OneError(ev) == Len(ev) = 1 /\ ev[1].type = "error"

\* C23: a malformed frame is answered by exactly one error event and by no
\* progress or success event; the consumer stays connected with its step
\* list and cursor as they were, and the frame after it, when it is well
\* formed and its work succeeds, is answered by the declared progress events,
\* the closing progress event and one success event
C23_MalformedFrame ==
    [][\A c \in WsConns :
          last'[c].n = last[c].n + 1 =>
             /\ Malformed(last'[c].frame, conn[c].kind) =>
                   /\ OneError(out'[c])
                   /\ conn'[c].kind = conn[c].kind
                   /\ conn'[c].operation_steps = conn[c].operation_steps
                   /\ conn'[c].current_step = conn[c].current_step
             /\ (/\ last[c].n > 0
                 /\ Malformed(last[c].frame, conn[c].kind)
                 /\ ~Malformed(last'[c].frame, conn[c].kind)
                 /\ last'[c].path = "ok") =>
                   /\ out'[c][Len(out'[c])].type = "success"
                   /\ ProgressCount(out'[c]) = Len(out'[c]) - 1
                   /\ Len(out'[c]) = Len(StepsOf(conn[c].kind)) + 2]_vars

\* the second frame of a connection was malformed and was answered by one
\* error event
C23_Witness ==
    \E c \in WsConns :
        /\ last[c].n = 2
        /\ Malformed(last[c].frame, conn[c].kind)
        /\ last[c].frame.json = "object"
        /\ OneError(out[c])

(* ===================== properties of the connection =================== *)
\* C24: a connect() on a consumer that requires authentication, by a
\* client without an authenticated user, closes the connection with code
\* 4001 and sends nothing; every other connect() is accepted and sends
\* exactly one 'connection' event with status 'connected', before any
\* message has been handled; none of the four AI consumers requires
\* authentication
C24_Connect ==
    [][/\ \A kind \in Kinds : ~requires_authentication(kind)
       /\ \A c \in WsConns :
            (conn[c].kind = "closed" /\ conn'[c] # conn[c]) =>
               \/ /\ conn'[c].kind = "closed"
                  /\ conn'[c].code = 4001
                  /\ conn'[c].consumer \notin Kinds
                  /\ conn'[c].user = "anon"
                  /\ out'[c] = <<>>
               \/ /\ conn'[c].kind # "closed"
                  /\ conn'[c].kind \in Kinds \/ conn'[c].user # "anon"
                  /\ last'[c].n = 0
                  /\ out'[c] = <<[type |-> "connection", status |-> "connected",
                                  message |-> ConnectionEvent.message]>>]_vars

\* an anonymous client was refused with 4001 by a consumer that keeps the
\* base class's requires_authentication, and was sent nothing
C24_Witness ==
    \E c \in WsConns :
        /\ conn[c].kind = "closed" /\ conn[c] # Closed
        /\ conn[c].code = 4001 /\ conn[c].user = "anon"
        /\ out[c] = <<>>

(* ================== properties of the synchronous views ================ *)
ViewOps == {"estimate-task", "get-summary", "generate-summary", "delete-summary"}

\* C25: a view called for a task that is not stored answers 404; for a
\* stored task it answers 400 when the validation or the estimation fails
\* and 500 when anything else fails
C25_StatusMapping ==
    resp.op \in ViewOps =>
        /\ ~resp.arg.existed => resp.result.status = 404
        /\ (resp.arg.existed /\ resp.arg.failure \in {"validation", "estimation"}) =>
              resp.result.status = 400
        /\ (resp.arg.existed /\ resp.arg.failure = "other") =>
              resp.result.status = 500

(* ================ properties of get_summary / delete_summary =========== *)
\* the summaries stored for task t
StoredFor(S, t) == {s \in S : s.task = t}

\* C26: delete_summary(t) reports a deletion exactly when t is stored and
\* has a summary, and removes that summary and nothing else (nothing at all
\* when it reports none); get_summary(t) returns the stored summary of a
\* stored task and none for a task without summary or a task that is not
\* stored, and changes nothing; a task gets a summary only by a
\* create_or_update_summary call that creates it, so after a delete
\* get_summary returns none until that call, and the summary it creates is
\* a new row built from all the activities of the task
C26_GetAndDelete ==
    [][/\ (svc'.n = svc.n + 1 /\ svc'.op = "delete") =>
             /\ svc'.kind = "deleted" <=>
                   (svc'.task \in DOMAIN tasks /\ StoredFor(sums, svc'.task) # {})
             /\ sums' = sums \ StoredFor(sums, svc'.task)
             /\ svc'.kind = "absent" => sums' = sums
             /\ StoredFor(sums', svc'.task) = {}
       /\ (svc'.n = svc.n + 1 /\ svc'.op = "get") =>
             /\ sums' = sums
             /\ svc'.found = IF svc'.task \in DOMAIN tasks
                             THEN StoredFor(sums, svc'.task) ELSE {}
             /\ Cardinality(svc'.found) <= 1
       /\ \A t \in 0..MaxTask :
             (StoredFor(sums, t) = {} /\ StoredFor(sums', t) # {}) =>
                /\ svc'.n = svc.n + 1
                /\ svc'.op = "create_or_update" /\ svc'.task = t
                /\ svc'.kind \in {"created_basic", "created_ai"}
                /\ svc'.before = {}
                /\ svc'.after = StoredFor(sums', t)
                /\ \A s \in StoredFor(sums', t) : s.id = nextSum
                /\ {svc'.given[i] : i \in DOMAIN svc'.given} = svc'.seen]_vars

\* a summary was deleted and the call after it created a new one
C26_Witness ==
    /\ svc.op = "create_or_update" /\ svc.kind = "created_ai"
    /\ svc.n >= 3
    /\ \E s \in svc.after : s.id > 1 /\ s.task = 1
    /\ nextTask = 2

(* ===================== properties of the factories ==================== *)
\* C27: each of the three factories returns the capability's mock
\* implementation, and raises nothing, when the settings hold no credential
\* or set USE_MOCK_AI, or when the configuration passed says use_mock; it
\* returns the real implementation when mock mode is off, a credential is
\* present and the client library constructs its client; and it raises the
\* capability's configuration error when mock mode is off and no
\* credential is present
C27_Factories ==
    resp.op = "create_provider" =>
        LET a == resp.arg
            key == a.api_key \notin {"<None>", ""}
            mock == IF a.source = "settings" THEN ~key \/ a.flag ELSE a.flag
            mocks == [summary |-> "MockSummaryProvider",
                      estimation |-> "MockAISimilarityEstimator",
                      parser |-> "MockTaskParser"]
            reals == [summary |-> "OpenAISummaryProvider",
                      estimation |-> "AISimilarityEstimator",
                      parser |-> "OpenAITaskParser"]
            errors == [summary |-> "SummaryConfigurationError",
                       estimation |-> "EstimationConfigurationError",
                       parser |-> "ParserConfigurationError"]
        IN  /\ mock => resp.kind = "returned" /\ resp.result = mocks[a.capability]
            /\ (~mock /\ key /\ ~a.clientFault) =>
                  resp.kind = "returned" /\ resp.result = reals[a.capability]
            /\ (~mock /\ ~key) => resp.kind = errors[a.capability]

\* the second call of a run built a mock from settings that hold a
\* credential and the override
C27_Witness ==
    /\ resp.op = "create_provider" /\ resp.n = 2
    /\ resp.arg.source = "settings" /\ resp.arg.api_key = "sk-1" /\ resp.arg.flag
    /\ resp.kind = "returned"

(* ============ properties of the incremental summary updates ============ *)
\* C28 as stated: no call for an existing summary gives the provider an
\* activity that an earlier call for that summary, failed or not, had
\* given it
C28_NeverPassedTwice ==
    svc.op = "create_or_update" => svc.again = {}

\* C28: no call for an existing summary gives the provider an activity
\* that an earlier call for that summary had given it and stored the
\* result of: the activity lists of the calls that completed are pairwise
\* disjoint
C28_NeverStoredTwice ==
    svc.op = "create_or_update" => svc.restored = {}

\* an update gave the provider new activities of a summary that already
\* covered others, after a failed call had been given the same ones
C28_Witness ==
    /\ svc.op = "create_or_update" /\ svc.kind = "updated"
    /\ svc.again # {}
    /\ svc.restored = {}
    /\ svc.stored[svc.task] # GivenIds(svc)

\* the timestamp of a summary's mark; an unset mark is before every time
MarkTime(A, s) ==
    IF s.last_activity_processed = None THEN -1
    ELSE ActById(A, s.last_activity_processed).timestamp

\* C29: after a create_or_update_summary call that returned a summary,
\* every activity the task had when the call began has been given to the
\* provider by that call or by an earlier call for the same summary (the
\* activities appended at the mark's own timestamp included), and the
\* timestamp of the mark of a stored summary never decreases
C29_NothingSkipped ==
    /\ [](( /\ svc.op = "create_or_update"
            /\ svc.kind \in {"created_ai", "updated", "noop"} )
          => svc.seen \subseteq svc.passed[svc.task])
    /\ [][\A s \in sums : \A s2 \in sums' :
             s2.id = s.id => MarkTime(acts', s2) >= MarkTime(acts, s)]_vars

(* ================== properties of the progress tracker ================= *)
\* C30: the cursor of a consumer is at least 0 and at most the number of
\* declared steps in every state; progress_to_next_step called with the
\* cursor at the number of declared steps sends no event and leaves cursor
\* and step list as they were; set_operation_steps leaves the cursor at 0
C30_CursorBounds ==
    /\ [](\A c \in WsConns :
             conn[c].kind \in Kinds =>
                /\ conn[c].current_step >= 0
                /\ conn[c].current_step <= Len(conn[c].operation_steps))
    /\ [][\A c \in WsConns :
             (conn[c].kind \in Kinds /\ resp'.n = resp.n + 1 /\ resp'.arg.c = c) =>
                /\ ( /\ resp'.op = "progress_to_next_step"
                     /\ conn[c].current_step = Len(conn[c].operation_steps) )
                   => ( /\ out'[c] = <<>>
                        /\ resp'.result = <<>>
                        /\ conn'[c].current_step = conn[c].current_step
                        /\ conn'[c].operation_steps = conn[c].operation_steps )
                /\ resp'.op = "set_operation_steps"
                   => ( /\ conn'[c].current_step = 0
                        /\ conn'[c].operation_steps = resp'.arg.steps )]_vars

\* progress_to_next_step was called with the cursor at the end of a list
\* of steps and sent nothing
C30_Witness ==
    \E c \in WsConns :
        /\ resp.op = "progress_to_next_step"
        /\ resp.result = <<>>
        /\ conn[c].kind \in Kinds
        /\ conn[c].operation_steps # <<>>
        /\ conn[c].current_step = Len(conn[c].operation_steps)

====
